---- MODULE Spec2Model ----
(***************************************************************************)
(* A model of melatools: the Field/Record framework (record.py), the RSD   *)
(* sample-plot record (rsd.py), the MSB physical-record reader and writer  *)
(* (msb.py), the DNF condition codec and the PAR writer (par.py) and the   *)
(* PAR command interpreter (par_parse.py).                                 *)
(*                                                                         *)
(* One module holds these state machines over one set of variables:        *)
(*   Spec      the MSB stream: write_msb, then read_msb of the same bytes, *)
(*             or read_msb of a file some other producer wrote             *)
(*   SpecRsd   RsdInitialDataRecord.from_floats of one payload             *)
(*   SpecDnf   DNFCondition.to_floats followed by DNFCondition.from_floats *)
(*   SpecEmit  ParWriter.emit of one statement                             *)
(*   SpecPar   parse_par over a sequence of commands or Par.from_json of a *)
(*             document; then to_json or emit of the Par, each read back   *)
(*   SpecRec   to_floats, from_floats and to_floats again of one Control or *)
(*             Output record                                               *)
(* A machine leaves the variables of the other machines unchanged.         *)
(***************************************************************************)
EXTENDS Integers, Sequences, FiniteSets, TLC

VARIABLES
    mode,       \* which machine runs: "msb", "rsd", "dnf", "emit", "par", "rec"
    \* ---- MSB stream (msb.py)
    fp,         \* the file: [words: the whole 4-byte words, tail: bytes of a cut-off word]
    wrQueue,    \* write_msb: the physical records handed to it
    wrDone,     \* write_msb: how many of them write_physical_record has written
    wrStatus,   \* "idle", "writing", "done", or the exception write_msb ended with
    rdPos,      \* the reader's position in fp, in words
    rdRecords,  \* the physical records read_msb has yielded
    rdStatus,   \* "idle", "reading", "eof" (generator returned), or the exception
    fpSrc,      \* what fp was made from when another producer wrote it: [recs, cut]
    rsdIn,      \* the payload handed to RsdInitialDataRecord.from_floats
    rsdOut,     \* what from_floats returned, or "" before the call
    \* ---- DNF codec (par.py)
    cond,       \* the DNFCondition: a sequence of groups of constraints
    dnfFloats,  \* cond.to_floats()
    dnfBack,    \* DNFCondition.from_floats(dnfFloats)
    dnfPc,      \* "build", "encoded", "decoded"
    \* ---- ParWriter.emit (par.py)
    stmt,       \* the statement: [kind, params, line_wrap]
    buf,        \* ParWriter.buf, one string per appended piece
    emitStatus, \* "idle", "ready", "done", "ParError"
    \* ---- parse_par (par_parse.py)
    cmds,       \* the (name, params) pairs the grammar front end produced
    cmdIdx,     \* how many of them parse_par has consumed
    par,        \* Parser.par: [events, order, includes, years, output, control]
    links,      \* Parser.links: [comparable, precedessors], id -> ids
    warnings,   \* the diagnostics printed to stderr, in order
    parStatus,  \* "idle", "parsing", "loading", "linked" (the Par is built), or the exception
    \* ---- Control and Output records (par.py, record.py)
    recKind,    \* "Control" or "Output"
    recIn,      \* the record: the attributes that are set
    recFloats,  \* recIn.to_floats(): [err, out]
    recBack,    \* from_floats(recFloats.out): [err, rec, buf]
    recAgain,   \* recBack.rec.to_floats(): [err, out]
    recPc,      \* "idle", "made", "encoded", "decoded", "reencoded"
    \* ---- conversions of the parsed or loaded Par (par.py, cli.py convert)
    doc,        \* the JSON document handed to Par.from_json, NoDoc when commands are parsed
    json,       \* par.to_json()
    back,       \* Par.from_json(json): [err, par, links]
    text,       \* the statements par.emit wrote: [err, stmts]
    reparsed,   \* parse_par over text.stmts: the Parser it ended with
    convPc      \* "idle", "model", "json", "back", "text", "reparsed"

msbVars  == <<fp, wrQueue, wrDone, wrStatus, rdPos, rdRecords, rdStatus, fpSrc>>
rsdVars  == <<rsdIn, rsdOut>>
dnfVars  == <<cond, dnfFloats, dnfBack, dnfPc>>
emitVars == <<stmt, buf, emitStatus>>
parVars  == <<cmds, cmdIdx, par, links, warnings, parStatus>>
recVars  == <<recKind, recIn, recFloats, recBack, recAgain, recPc>>
convVars == <<doc, json, back, text, reparsed, convPc>>
vars     == <<mode, msbVars, rsdVars, dnfVars, emitVars, parVars, recVars, convVars>>

(***************************************************************************)
(* Floats.  A float is an integer: an integral finite float is itself; the *)
(* other floats the code tells apart are the codes below and their         *)
(* negatives.  No arithmetic is done on a code other than negation.        *)
(***************************************************************************)
Half    == 4000000   \* 0.5: finite, not integral, exact at any float width
Tenth   == 4000001   \* 0.1 as a Python float (a double)
Tenth32 == 4000002   \* what struct gives back for 0.1 sent through format "f"
Tiny    == 4000003   \* a denormal: what the bits of a small positive int are as a float
Inf     == 9000000   \* float("inf"); -Inf is float("-inf")
NaN     == 9000001   \* float("nan")

Abs(f) == IF f < 0 THEN -f ELSE f

\* math.isfinite
IsFinite(f) == f # NaN /\ f # Inf /\ f # -Inf

\* f is a finite float with no fractional part
IsIntegral(f) == Abs(f) < Half

\* Python's ==, <, unary minus and int() on floats
FEq(a, b) == a = b /\ a # NaN
FLt(a, b) == a # NaN /\ b # NaN /\ a < b
FNeg(f)   == IF f = NaN THEN NaN ELSE -f
IntOf(f)  == IF IsIntegral(f) THEN f ELSE 0   \* defined for finite f: truncation

\* int(f) raises for nan (ValueError) and for an infinity (OverflowError)
IntRaises(f) == ~IsFinite(f)
IntError(f) == IF f = NaN THEN "ValueError" ELSE "OverflowError"

(***************************************************************************)
(* record.py: FpStream                                                     *)
(***************************************************************************)
\* FpStream.next: [err, v, buf]; the stream is the list of floats not yet read
FpStream_next(b, peek) ==
    IF Len(b) > 0
    THEN [err |-> "", v |-> Head(b), buf |-> IF peek THEN b ELSE Tail(b)]
    ELSE [err |-> "ValueError", v |-> 0, buf |-> b]

FpStream_nextint(b) ==
    LET Conv(n) ==
          IF n.err # "" THEN n
          ELSE IF IntRaises(n.v) THEN [err |-> IntError(n.v), v |-> 0, buf |-> n.buf]
          ELSE IF ~FEq(n.v, IntOf(n.v)) THEN [err |-> "ValueError", v |-> 0, buf |-> n.buf]
          ELSE [err |-> "", v |-> IntOf(n.v), buf |-> n.buf]
    IN  Conv(FpStream_next(b, FALSE))

(***************************************************************************)
(* record.py: the fields.  A field is [kind, c, inner]: c is a Constant's  *)
(* value, inner the kind an Optional wraps.  A record instance is a        *)
(* function from the names of the attributes that were set to their values;*)
(* a name outside its domain reads as None (the class attribute).          *)
(***************************************************************************)
Value       == [kind |-> "Value",       c |-> 0, inner |-> ""]
IntValue    == [kind |-> "IntValue",    c |-> 0, inner |-> ""]
BoolValue   == [kind |-> "BoolValue",   c |-> 0, inner |-> ""]
AnyReserved == [kind |-> "AnyReserved", c |-> 0, inner |-> ""]
Constant(v) == [kind |-> "Constant",    c |-> v, inner |-> ""]
Optional(f) == [kind |-> "Optional",    c |-> 0, inner |-> f.kind]

\* Field.ignore
Ignore(f) == f.kind \in {"AnyReserved", "Constant"}

NoAttrs == [n \in {} |-> 0]
HasAttr(r, n) == n \in DOMAIN r
SetAttr(r, n, v) == [m \in (DOMAIN r) \cup {n} |-> IF m = n THEN v ELSE r[m]]

\* decode of the plain kinds: [err, some, v, buf]; some = FALSE is None
PlainDecode(kind, c, b) ==
    CASE kind = "Value" ->
            LET Got(n) == [err |-> n.err, some |-> n.err = "", v |-> n.v, buf |-> n.buf]
            IN  Got(FpStream_next(b, FALSE))
      [] kind = "IntValue" ->
            LET Got(n) == [err |-> n.err, some |-> n.err = "", v |-> n.v, buf |-> n.buf]
            IN  Got(FpStream_nextint(b))
      [] kind = "BoolValue" ->
            LET Got(n) == [err |-> n.err, some |-> n.err = "",
                           v |-> IF n.err = "" /\ FEq(n.v, 1) THEN 1 ELSE 0, buf |-> n.buf]
            IN  Got(FpStream_next(b, FALSE))
      [] kind = "AnyReserved" ->
            LET Got(n) == [err |-> n.err, some |-> FALSE, v |-> 0, buf |-> n.buf]
            IN  Got(FpStream_next(b, FALSE))
      [] kind = "Constant" ->
            LET Got(n) ==
                  IF n.err = "" /\ ~FEq(n.v, c)
                  THEN [err |-> "ValueError", some |-> FALSE, v |-> 0, buf |-> n.buf]
                  ELSE [err |-> n.err, some |-> FALSE, v |-> 0, buf |-> n.buf]
            IN  Got(FpStream_next(b, FALSE))

\* Field.decode, Optional.decode included
Field_decode(f, b) ==
    IF f.kind = "Optional"
    THEN LET Peeked(x) ==
                IF x.err # "" THEN [err |-> x.err, some |-> FALSE, v |-> 0, buf |-> b]
                ELSE IF FEq(x.v, 0) THEN [err |-> "", some |-> FALSE, v |-> 0, buf |-> Tail(b)]
                ELSE PlainDecode(f.inner, 0, b)
         IN  Peeked(FpStream_next(b, TRUE))
    ELSE PlainDecode(f.kind, f.c, b)

\* encode of the plain kinds with BoolValue.encode writing v itself
PlainEncode_bool_as_given(kind, c, some, v) ==
    CASE kind \in {"Value", "IntValue"} ->
            IF some THEN [err |-> "", out |-> <<v>>] ELSE [err |-> "TypeError", out |-> <<>>]
      [] kind = "BoolValue" ->
            IF some THEN [err |-> "", out |-> <<v>>] ELSE [err |-> "TypeError", out |-> <<>>]
      [] kind = "AnyReserved" ->
            [err |-> "", out |-> <<0>>]
      [] kind = "Constant" ->
            IF some /\ ~FEq(v, c) THEN [err |-> "ValueError", out |-> <<>>]
            ELSE [err |-> "", out |-> <<c>>]

\* encode of the plain kinds: [err, out]; FpStream.write is float(v), and
\* float(None) raises TypeError
PlainEncode(kind, c, some, v) ==
    CASE kind \in {"Value", "IntValue"} ->
            IF some THEN [err |-> "", out |-> <<v>>] ELSE [err |-> "TypeError", out |-> <<>>]
      [] kind = "BoolValue" ->
            [err |-> "", out |-> <<IF some /\ v # 0 THEN 1 ELSE 0>>]
      [] kind = "AnyReserved" ->
            [err |-> "", out |-> <<0>>]
      [] kind = "Constant" ->
            IF some /\ ~FEq(v, c) THEN [err |-> "ValueError", out |-> <<>>]
            ELSE [err |-> "", out |-> <<c>>]

\* Field.encode, Optional.encode included
Field_encode(f, some, v) ==
    IF f.kind = "Optional"
    THEN IF ~some THEN [err |-> "", out |-> <<0>>] ELSE PlainEncode(f.inner, 0, some, v)
    ELSE PlainEncode(f.kind, f.c, some, v)

(***************************************************************************)
(* record.py: Record.  A schema is a sequence of [name, f].                *)
(***************************************************************************)
\* one turn of the for loop of Record.decode on st = [err, rec, buf]: decode
\* the field, setattr when the value is not None
DecodeStep(st, nf) ==
    LET Set(d) ==
          IF d.err # "" THEN [err |-> "ValueError", rec |-> st.rec, buf |-> d.buf]
          ELSE [err |-> "", buf |-> d.buf,
                rec |-> IF d.some THEN SetAttr(st.rec, nf.name, d.v) ELSE st.rec]
    IN  Set(Field_decode(nf.f, st.buf))

\* the for loop of Record.decode; an exception ends it
RECURSIVE DecodeLoop(_, _)
DecodeLoop(fields, st) ==
    IF fields = <<>> \/ st.err # "" THEN st
    ELSE DecodeLoop(Tail(fields), DecodeStep(st, Head(fields)))

\* Record.decode(stream, fields): the loop runs over "fields or r.fields"
Record_decode(schema, b, fields) ==
    DecodeLoop(IF fields = <<>> THEN schema ELSE fields,
               [err |-> "", rec |-> NoAttrs, buf |-> b])

\* one turn of the for loop of Record.encode on acc = [err, out]
EncodeStep(acc, nf, r) ==
    LET Put(e) == IF e.err # "" THEN e ELSE [err |-> "", out |-> acc.out \o e.out]
        Get(some) == Put(Field_encode(nf.f, some, IF some THEN r[nf.name] ELSE 0))
    IN  Get(HasAttr(r, nf.name))

\* the for loop of Record.encode; an exception ends it
RECURSIVE EncodeLoop(_, _, _)
EncodeLoop(fields, r, acc) ==
    IF fields = <<>> \/ acc.err # "" THEN acc
    ELSE EncodeLoop(Tail(fields), r, EncodeStep(acc, Head(fields), r))

\* Record.to_floats
Record_to_floats(schema, r) == EncodeLoop(schema, r, [err |-> "", out |-> <<>>])

\* Record.visible_fields: the names of the fields that are not ignored
VisibleNames(schema) == {schema[i].name : i \in {j \in DOMAIN schema : ~Ignore(schema[j].f)}}

\* Record.to_json: the visible fields that are not None
Record_to_json(schema, r) == [n \in VisibleNames(schema) \cap DOMAIN r |-> r[n]]

\* Record.from_json: the schema's names that the dict holds are set
Record_from_json(schema, d) ==
    [n \in {schema[i].name : i \in DOMAIN schema} \cap DOMAIN d |-> d[n]]

(***************************************************************************)
(* rsd.py: the schemas and RsdInitialDataRecord                            *)
(***************************************************************************)
F(n, f) == [name |-> n, f |-> f]

RsdSamplePlot_fields == <<
    F("id", IntValue),                        F("year", IntValue),
    F("area", Value),                         F("area_weight", Value),
    F("X", Value),                            F("Y", Value),
    F("stand_id", Optional(Value)),           F("height", Value),
    F("dd", Value),                           F("owner_category", IntValue),
    F("land_use_category", IntValue),         F("soil_category", IntValue),
    F("site_type_category", IntValue),        F("taxation_class", IntValue),
    F("fftcsfc", IntValue),                   F("drainage_category", IntValue),
    F("drainage_feasibility", IntValue),      F("_18", Constant(0)),
    F("last_drainage_year", IntValue),        F("last_fertilization_year", IntValue),
    F("last_ssp_year", IntValue),             F("natural_regen_feasibility", IntValue),
    F("last_cleaning_year", IntValue),        F("development_class", Optional(Value)),
    F("last_artif_regen_year", IntValue),     F("last_tending_young_year", IntValue),
    F("last_pruning_year", IntValue),         F("last_cutting_year", IntValue),
    F("forestry_center", IntValue),           F("management_category", IntValue),
    F("last_cutting_method", IntValue),       F("municipality", IntValue),
    F("_33", AnyReserved),                    F("_34", AnyReserved) >>

RsdTree_fields == <<
    F("f", Value),                            F("spe", IntValue),
    F("d", Value),                            F("h", Value),
    F("age", Value),                          F("bio_age", Value),
    F("rmswl", Optional(Value)),              F("prune_year", Optional(Value)),
    F("age_13_10", Optional(Value)),          F("origin", Optional(IntValue)),
    F("sample_id", Optional(IntValue)),       F("orig_angle", Optional(Value)),
    F("orig_dist", Optional(Value)),          F("orig_hdif", Optional(Value)),
    F("h_low_branch", Optional(Value)),       F("management_category", Optional(IntValue)),
    F("_17", AnyReserved) >>

\* Python's seq[:n]: a negative n counts from the end
SliceTo(s, n) ==
    LET k == IF n >= 0 THEN (IF n < Len(s) THEN n ELSE Len(s))
                       ELSE (IF Len(s) + n > 0 THEN Len(s) + n ELSE 0)
    IN  SubSeq(s, 1, k)

\* the fields a count of nv selects at rsd.py:89 and rsd.py:94
PlotFieldsFor(nv) == SliceTo(RsdSamplePlot_fields, nv)
TreeFieldsFor(ntv) == SliceTo(RsdTree_fields, ntv)

\* the list comprehension of rsd.py:94: range(nt) decodes of the tree schema prefix
RECURSIVE DecodeTrees(_, _, _, _)
DecodeTrees(nt, ntv, b, acc) ==
    IF nt <= 0 THEN [err |-> "", trees |-> acc, buf |-> b]
    ELSE LET Tree1(d) ==
                IF d.err # "" THEN [err |-> d.err, trees |-> acc, buf |-> d.buf]
                ELSE DecodeTrees(nt - 1, ntv, d.buf, Append(acc, d.rec))
         IN  Tree1(Record_decode(RsdTree_fields, b, TreeFieldsFor(ntv)))

RsdError(e) == [err |-> e, record_type |-> 1, plot |-> NoAttrs, trees |-> <<>>, buf |-> <<>>,
                nplot |-> 0, ntree |-> 0]

\* RsdInitialDataRecord.from_floats: [err, record_type, plot, trees]; buf is what
\* the stream still holds on return, nplot and ntree the number of fields the two
\* decode calls ran over
RsdInitialDataRecord_from_floats(b) ==
    LET Trees(pf, plot, tf, ts) ==
          IF ts.err # "" THEN RsdError(ts.err)
          ELSE [err |-> "", record_type |-> 1, plot |-> plot.rec,
                trees |-> ts.trees, buf |-> ts.buf,
                nplot |-> Len(IF pf = <<>> THEN RsdSamplePlot_fields ELSE pf),
                ntree |-> Len(IF tf = <<>> THEN RsdTree_fields ELSE tf)]
        TreeValues(pf, plot, nt, ntv) ==
          IF ntv.err # "" THEN RsdError(ntv.err)
          ELSE Trees(pf, plot, TreeFieldsFor(ntv.v), DecodeTrees(nt.v, ntv.v, ntv.buf, <<>>))
        TreeCount(pf, plot, nt) ==
          IF nt.err # "" THEN RsdError(nt.err)
          ELSE TreeValues(pf, plot, nt, FpStream_nextint(nt.buf))
        Plot(pf, plot) ==
          IF plot.err # "" THEN RsdError(plot.err)
          ELSE TreeCount(pf, plot, FpStream_nextint(plot.buf))
        PlotFields(nv, pf) == Plot(pf, Record_decode(RsdSamplePlot_fields, nv.buf, pf))
        PlotValues(nv) ==
          IF nv.err # "" THEN RsdError(nv.err)
          ELSE IF nv.v > Len(RsdSamplePlot_fields) THEN RsdError("ValueError")
          ELSE PlotFields(nv, PlotFieldsFor(nv.v))
    IN  PlotValues(FpStream_nextint(b))

RECURSIVE TreesToFloats(_)
TreesToFloats(trees) ==
    IF trees = <<>> THEN [err |-> "", out |-> <<>>]
    ELSE LET Joined(e, rest) ==
                IF e.err # "" THEN e
                ELSE IF rest.err # "" THEN rest
                ELSE [err |-> "", out |-> e.out \o rest.out]
         IN  Joined(Record_to_floats(RsdTree_fields, Head(trees)), TreesToFloats(Tail(trees)))

\* RsdInitialDataRecord.to_floats: [err, out]
RsdInitialDataRecord_to_floats(rec) ==
    LET Joined(p, t) ==
          IF p.err # "" THEN p
          ELSE IF t.err # "" THEN t
          ELSE [err |-> "", out |-> <<Len(RsdSamplePlot_fields)>> \o p.out
                                    \o <<Len(rec.trees), Len(RsdTree_fields)>> \o t.out]
    IN  Joined(Record_to_floats(RsdSamplePlot_fields, rec.plot), TreesToFloats(rec.trees))

\* RsdInitialDataRecord.from_json
RsdInitialDataRecord_from_json(src) ==
    [record_type |-> 1,
     plot  |-> Record_from_json(RsdSamplePlot_fields, src.plot),
     trees |-> [i \in DOMAIN src.trees |-> Record_from_json(RsdTree_fields, src.trees[i])]]

(***************************************************************************)
(* msb.py: the stream.  The file is a sequence of 4-byte words and, when   *)
(* it was cut inside a word, the number of bytes of that word that are     *)
(* left.  A word is [t, v]: an int ("i"), a float ("f") or one half of the *)
(* double that holds a uid ("dlo", "dhi").                                 *)
(***************************************************************************)
IntSize   == 4   \* struct.calcsize("I")
FloatSize == 4   \* struct.calcsize("f")
UidSize   == 8   \* struct.calcsize("d")
WordSize  == IntSize

IntWord(n)   == [t |-> "i", v |-> n]
FloatWord(f) == [t |-> "f", v |-> f]
UidWords(u)  == <<[t |-> "dlo", v |-> u], [t |-> "dhi", v |-> u]>>

\* struct.pack with format "f": a double that is no float32 is rounded to one
Pack32(f) == IF f = Tenth THEN Tenth32 ELSE IF f = -Tenth THEN -Tenth32 ELSE f

\* the smallest bit pattern of a float >= 1.0, as an int
FloatBits == 1065353216

\* struct.unpack of a word with format "I".  The bits of a float are 0 for
\* 0.0 and otherwise a number beyond every length and count of the model; the
\* low half of a small integral double is 0.
AsInt(w) ==
    CASE w.t = "i"   -> w.v
      [] w.t = "f"   -> IF w.v = 0 THEN 0 ELSE FloatBits + Abs(w.v)
      [] w.t = "dlo" -> 0
      [] w.t = "dhi" -> IF w.v = 0 THEN 0 ELSE FloatBits + Abs(w.v)

\* struct.unpack of a word with format "f".  The bits of a small positive int
\* are a denormal float.
AsFloat(w) ==
    CASE w.t = "f"   -> w.v
      [] w.t = "i"   -> IF w.v = 0 THEN 0 ELSE Tiny
      [] w.t = "dlo" -> 0
      [] w.t = "dhi" -> IF w.v = 0 THEN 0 ELSE Half

\* struct.unpack of two words with format "d"
AsUid(w1, w2) == IF w1.t = "dlo" /\ w2.t = "dhi" /\ w1.v = w2.v THEN w1.v ELSE Tiny

\* the bytes fp.read can still return at word position pos
Avail(file, pos) == (Len(file.words) - pos) * WordSize + file.tail

\* MsbStream._read(sz): [err, words, pos]
MsbStream_read(file, pos, sz) ==
    IF Avail(file, pos) < sz
    THEN [err |-> "MsbEof", words |-> <<>>, pos |-> Len(file.words)]
    ELSE [err |-> "", words |-> SubSeq(file.words, pos + 1, pos + sz \div WordSize),
          pos |-> pos + sz \div WordSize]

\* MsbStream.read_int: [err, v, pos]
read_int(file, pos) ==
    LET Unpack(r) ==
          IF r.err # "" THEN [err |-> r.err, v |-> 0, pos |-> r.pos]
          ELSE [err |-> "", v |-> AsInt(r.words[1]), pos |-> r.pos]
    IN  Unpack(MsbStream_read(file, pos, IntSize))

\* MsbStream.read_uid
read_uid(file, pos) ==
    LET Unpack(r) ==
          IF r.err # "" THEN [err |-> r.err, v |-> 0, pos |-> r.pos]
          ELSE [err |-> "", v |-> AsUid(r.words[1], r.words[2]), pos |-> r.pos]
    IN  Unpack(MsbStream_read(file, pos, UidSize))

\* MsbStream.read_float
read_float(file, pos) ==
    LET Unpack(r) ==
          IF r.err # "" THEN [err |-> r.err, v |-> 0, pos |-> r.pos]
          ELSE IF ~IsFinite(AsFloat(r.words[1])) THEN [err |-> "MsbError", v |-> 0, pos |-> r.pos]
          ELSE [err |-> "", v |-> AsFloat(r.words[1]), pos |-> r.pos]
    IN  Unpack(MsbStream_read(file, pos, FloatSize))

\* MsbStream.read_fpint
read_fpint(file, pos) ==
    LET Conv(r) ==
          IF r.err # "" THEN r
          ELSE IF ~FEq(IntOf(r.v), r.v) THEN [err |-> "MsbError", v |-> 0, pos |-> r.pos]
          ELSE [err |-> "", v |-> IntOf(r.v), pos |-> r.pos]
    IN  Conv(read_float(file, pos))

\* MsbStream.read_fpbuf(n): [err, v: the floats, pos].  fp.read of a negative
\* size returns every byte that is left, and iter_unpack needs whole floats.
read_fpbuf(file, pos, n) ==
    IF n < 0
    THEN IF file.tail # 0 /\ pos <= Len(file.words)
         THEN [err |-> "struct.error", v |-> <<>>, pos |-> Len(file.words)]
         ELSE [err |-> "", pos |-> IF pos > Len(file.words) THEN pos ELSE Len(file.words),
               v |-> [i \in 1..(IF pos > Len(file.words) THEN 0 ELSE Len(file.words) - pos)
                        |-> AsFloat(file.words[pos + i])]]
    ELSE LET Unpack(r) ==
                IF r.err # "" THEN [err |-> r.err, v |-> <<>>, pos |-> r.pos]
                ELSE [err |-> "", v |-> [i \in 1..n |-> AsFloat(r.words[i])], pos |-> r.pos]
         IN  Unpack(MsbStream_read(file, pos, FloatSize * n))

\* a logical record object; buf is the float buffer of a plain MsbLogicalRecord
LRec(typ, plot, trees, b) == [record_type |-> typ, plot |-> plot, trees |-> trees, buf |-> b]

\* MsbLogicalRecord(typ, args): the class defines no __init__, so the call
\* with arguments raises TypeError
MsbLogicalRecord_new(typ, args) == [err |-> "TypeError", rec |-> LRec(typ, NoAttrs, <<>>, <<>>)]

\* MsbLogicalRecord.from_floats: [err, rec]
MsbLogicalRecord_from_floats(typ, args) ==
    IF typ = 1
    THEN LET Made(r) == [err |-> r.err, rec |-> LRec(1, r.plot, r.trees, <<>>)]
         IN  Made(RsdInitialDataRecord_from_floats(args))
    ELSE MsbLogicalRecord_new(typ, args)

\* MsbLogicalRecord.from_json; d is [record_type, plot, trees, buf]
MsbLogicalRecord_from_json(d) ==
    IF d.record_type = 1
    THEN LET Made(r) == [err |-> "", rec |-> LRec(1, r.plot, r.trees, <<>>)]
         IN  Made(RsdInitialDataRecord_from_json(d))
    ELSE MsbLogicalRecord_new(d.record_type, d.buf)

\* to_floats of a logical record object: [err, out]
LogicalRecord_to_floats(r) ==
    IF r.record_type = 1 THEN RsdInitialDataRecord_to_floats(r)
    ELSE [err |-> "", out |-> r.buf]

\* the while loop of read_physical_record: [err, records, pos]
RECURSIVE ReadLogicalRecords(_, _, _, _, _)
ReadLogicalRecords(file, pos, nr, nv, acc) ==
    IF ~(nr < nv) THEN [err |-> "", records |-> acc, pos |-> pos]
    ELSE
    LET Record(sz, b, r) ==
          IF r.err # "" THEN [err |-> r.err, records |-> acc, pos |-> b.pos]
          ELSE ReadLogicalRecords(file, b.pos, nr + sz.v + 2, nv, Append(acc, r.rec))
        Buffer(typ, sz, b) ==
          IF b.err # "" THEN [err |-> b.err, records |-> acc, pos |-> b.pos]
          ELSE Record(sz, b, MsbLogicalRecord_from_floats(typ.v, b.v))
        Size(typ, sz) ==
          IF sz.err # "" THEN [err |-> sz.err, records |-> acc, pos |-> sz.pos]
          ELSE Buffer(typ, sz, read_fpbuf(file, sz.pos, sz.v))
        Type(typ) ==
          IF typ.err # "" THEN [err |-> typ.err, records |-> acc, pos |-> typ.pos]
          ELSE Size(typ, read_fpint(file, typ.pos))
    IN  Type(read_fpint(file, pos))

NoPhys == [uid |-> 0, records |-> <<>>]

\* MsbStream.read_physical_record: [res, rec, pos]; res is "record", "None"
\* or the exception raised
read_physical_record(file, pos) ==
    LET Length2(length, uid, rs, length2) ==
          IF length2.err # ""
          THEN [res |-> length2.err, rec |-> NoPhys, pos |-> length2.pos]
          ELSE IF length2.v # length.v
          THEN [res |-> "MsbError", rec |-> NoPhys, pos |-> length2.pos]
          ELSE [res |-> "record", pos |-> length2.pos,
                rec |-> [uid |-> uid.v, records |-> rs.records]]
        Records(length, uid, rs) ==
          IF rs.err # "" THEN [res |-> rs.err, rec |-> NoPhys, pos |-> rs.pos]
          ELSE Length2(length, uid, rs, read_int(file, rs.pos))
        Count(length, uid, nv) ==
          IF nv.err # "" THEN [res |-> nv.err, rec |-> NoPhys, pos |-> nv.pos]
          ELSE Records(length, uid, ReadLogicalRecords(file, nv.pos, 0, nv.v, <<>>))
        Uid(length, uid) ==
          IF uid.err # "" THEN [res |-> uid.err, rec |-> NoPhys, pos |-> uid.pos]
          ELSE Count(length, uid, read_int(file, uid.pos))
        Length(length) ==
          IF length.err = "MsbEof" THEN [res |-> "None", rec |-> NoPhys, pos |-> length.pos]
          ELSE Uid(length, read_uid(file, length.pos))
    IN  Length(read_int(file, pos))

(***************************************************************************)
(* msb.py: writing                                                         *)
(***************************************************************************)
\* MsbStream.write_float: [err, words]
write_float(words, f) ==
    IF ~IsFinite(f) THEN [err |-> "MsbError", words |-> words]
    ELSE [err |-> "", words |-> Append(words, FloatWord(Pack32(f)))]

\* MsbStream.write_fpbuf: write_float for each float of the buffer in turn;
\* the floats before the first rejected one are written
write_fpbuf(words, b) ==
    LET each == [i \in DOMAIN b |-> write_float(<<>>, b[i])]
        bad  == {i \in DOMAIN b : each[i].err # ""}
        n    == IF bad = {} THEN Len(b) ELSE (CHOOSE i \in bad : \A j \in bad : i <= j) - 1
    IN  [err   |-> IF bad = {} THEN "" ELSE each[n + 1].err,
         words |-> words \o [i \in 1..n |-> each[i].words[1]]]

MsbStream_write_int(words, i) == Append(words, IntWord(i))
MsbStream_write_uid(words, uid) == words \o UidWords(uid)

\* records = [r.to_floats() for r in rec.records]: [err, out: the buffers]
RECURSIVE AllToFloats(_)
AllToFloats(lrecs) ==
    IF lrecs = <<>> THEN [err |-> "", out |-> <<>>]
    ELSE LET Joined(e, rest) ==
                IF e.err # "" THEN [err |-> e.err, out |-> <<>>]
                ELSE IF rest.err # "" THEN rest
                ELSE [err |-> "", out |-> <<e.out>> \o rest.out]
         IN  Joined(LogicalRecord_to_floats(Head(lrecs)), AllToFloats(Tail(lrecs)))

RECURSIVE SumValues(_)
SumValues(bufs) == IF bufs = <<>> THEN 0 ELSE 2 + Len(Head(bufs)) + SumValues(Tail(bufs))

\* the total value count written after the uid (msb.py:132)
TotalValueCount(bufs) == SumValues(bufs)

\* the length written at both ends (msb.py:126-128)
BlockLength(bufs) == UidSize + Len(bufs) * IntSize + SumValues(bufs) * FloatSize

\* the for loop of write_physical_record
RECURSIVE WriteLogicalRecords(_, _, _)
WriteLogicalRecords(words, lrecs, bufs) ==
    IF lrecs = <<>> THEN [err |-> "", words |-> words]
    ELSE LET Buffer(b) ==
                IF b.err # "" THEN b
                ELSE WriteLogicalRecords(b.words, Tail(lrecs), Tail(bufs))
             Size(n) == IF n.err # "" THEN n ELSE Buffer(write_fpbuf(n.words, Head(bufs)))
             Type(t) == IF t.err # "" THEN t ELSE Size(write_float(t.words, Len(Head(bufs))))
         IN  Type(write_float(words, Head(lrecs).record_type))

\* MsbStream.write_physical_record: [err, words]; on an exception words holds
\* what had been written to fp by then
write_physical_record(words, rec) ==
    LET Length2(length, w4) ==
          IF w4.err # "" THEN w4
          ELSE [err |-> "", words |-> MsbStream_write_int(w4.words, length)]
        Header(records, length) ==
          Length2(length,
                  WriteLogicalRecords(
                      MsbStream_write_int(
                          MsbStream_write_uid(MsbStream_write_int(words, length), rec.uid),
                          TotalValueCount(records.out)),
                      rec.records, records.out))
        Floats(records) ==
          IF records.err # "" THEN [err |-> records.err, words |-> words]
          ELSE Header(records, BlockLength(records.out))
    IN  Floats(AllToFloats(rec.records))

(***************************************************************************)
(* The inputs of the MSB machine                                           *)
(***************************************************************************)
MaxPhys == 2   \* physical records handed to write_msb

\* the 34 plot floats and the 17 tree floats of a record with every field given
FullPlot == [i \in 1..34 |-> IF i = 18 THEN 0 ELSE i]
FullTree == [i \in 1..17 |-> i]
\* the same with every Optional field absent (the 0 sentinel)
BarePlot == [i \in 1..34 |-> IF i \in {7, 18, 24, 33, 34} THEN 0 ELSE i]
BareTree == [i \in 1..17 |-> IF i > 6 THEN 0 ELSE i]

Decoded(payload) == LET Made(r) == LRec(1, r.plot, r.trees, <<>>)
                    IN  Made(RsdInitialDataRecord_from_floats(payload))

\* type-1 logical records as read_msb or from_json leave them
RecFull       == Decoded(<<34>> \o FullPlot \o <<1, 17>> \o FullTree)
RecBare       == Decoded(<<34>> \o BarePlot \o <<2, 17>> \o BareTree \o FullTree)
RecPlotPrefix == Decoded(<<2, 7, 2000, 0, 0>>)
RecPrefix32   == Decoded(<<32>> \o SubSeq(FullPlot, 1, 32) \o <<1, 6>> \o SubSeq(FullTree, 1, 6))
RecTreePrefix == Decoded(<<32>> \o SubSeq(FullPlot, 1, 32) \o <<1, 3>> \o SubSeq(FullTree, 1, 3))
RecWith(area) == LRec(1, SetAttr(RecFull.plot, "area", area), <<>>, <<>>)

LogicalPool == { <<RecFull>>, <<RecBare>>, <<RecPlotPrefix>>, <<RecPrefix32>>,
                 <<RecTreePrefix>>, <<RecBare, RecPrefix32>>,
                 <<RecWith(Tenth)>>, <<RecWith(NaN)>>, <<RecBare, RecWith(-Inf)>> }

PhysPool == { [uid |-> u, records |-> rs] : u \in {5, 6}, rs \in LogicalPool }

RECURSIVE SeqsUpTo(_, _)
SeqsUpTo(S, n) ==
    IF n = 0 THEN { <<>> }
    ELSE LET Longer(shorter) ==
                shorter \cup { Append(q, x) : q \in { t \in shorter : Len(t) = n - 1 }, x \in S }
         IN  Longer(SeqsUpTo(S, n - 1))

Queues == SeqsUpTo(PhysPool, MaxPhys)

\* A block as another producer lays it out (msb.py:67-75): raw is
\* [length, uid, nv, lrecs, length2], a logical record [typ, sz, payload]
RECURSIVE LogicalWords(_)
LogicalWords(lrecs) ==
    IF lrecs = <<>> THEN <<>>
    ELSE LET Words(l) ==
                <<FloatWord(l.typ), FloatWord(l.sz)>>
                \o [i \in DOMAIN l.payload |-> FloatWord(l.payload[i])]
         IN  Words(Head(lrecs)) \o LogicalWords(Tail(lrecs))

BlockWords(raw) ==
    <<IntWord(raw.length)>> \o UidWords(raw.uid) \o <<IntWord(raw.nv)>>
    \o LogicalWords(raw.lrecs) \o <<IntWord(raw.length2)>>

RECURSIVE FileWords(_)
FileWords(raws) == IF raws = <<>> THEN <<>> ELSE BlockWords(Head(raws)) \o FileWords(Tail(raws))

Lr(typ, payload) == [typ |-> typ, sz |-> Len(payload), payload |-> payload]

RECURSIVE RawCount(_)
RawCount(lrecs) == IF lrecs = <<>> THEN 0 ELSE 2 + Len(Head(lrecs).payload) + RawCount(Tail(lrecs))

Block(uid, lrecs) ==
    LET Laid(n) ==
          [length |-> n, uid |-> uid, nv |-> RawCount(lrecs), lrecs |-> lrecs, length2 |-> n]
    IN  Laid(UidSize + IntSize + RawCount(lrecs) * FloatSize)

SmallPlot == <<2, 7, 2000, 0, 0>>

ExternalPool == {
    << Block(5, <<Lr(1, SmallPlot)>>) >>,
    << Block(5, <<Lr(1, SmallPlot)>>), Block(6, <<Lr(1, <<1, 8, 0, 0>>)>>) >>,
    << Block(5, <<Lr(2, <<1, 2>>)>>) >>,
    << Block(5, <<Lr(1, SmallPlot), Lr(3, <<Half>>)>>) >>,
    << Block(5, <<Lr(1, <<3, 1, 2000, NaN, 0, 0>>)>>) >>,
    << Block(5, <<Lr(1, <<3, 1, 2000, 4, 1, 1, -Inf>>)>>) >>,
    << Block(5, <<[Lr(1, SmallPlot) EXCEPT !.typ = NaN]>>) >>,
    << Block(5, <<[Lr(1, SmallPlot) EXCEPT !.sz = Inf]>>) >>,
    << Block(5, <<[Lr(1, SmallPlot) EXCEPT !.typ = Half]>>) >>,
    << [Block(5, <<Lr(1, SmallPlot)>>) EXCEPT !.length2 = 0] >>,
    \* a total value count one below and one above the floats that follow
    << [Block(5, <<Lr(1, SmallPlot)>>) EXCEPT !.nv = 6] >>,
    << [Block(5, <<Lr(1, SmallPlot)>>) EXCEPT !.nv = 8] >> }

\* the first cut bytes of a file
CutFile(words, cut) == [words |-> SubSeq(words, 1, cut \div WordSize), tail |-> cut % WordSize]

NoSrc == [recs |-> <<>>, cut |-> 0]

InitMsbVars ==
    /\ rdPos = 0
    /\ rdRecords = <<>>
    /\ wrDone = 0
    /\ \/ /\ fp = [words |-> <<>>, tail |-> 0]
          /\ wrQueue \in Queues
          /\ wrStatus = "writing"
          /\ rdStatus = "idle"
          /\ fpSrc = NoSrc
       \/ \E e \in ExternalPool : \E cut \in 0..(Len(FileWords(e)) * WordSize) :
          /\ fp = CutFile(FileWords(e), cut)
          /\ fpSrc = [recs |-> e, cut |-> cut]
          /\ wrQueue = <<>>
          /\ wrStatus = "idle"
          /\ rdStatus = "reading"

IdleMsbVars ==
    /\ fp = [words |-> <<>>, tail |-> 0]
    /\ wrQueue = <<>> /\ wrDone = 0 /\ wrStatus = "idle"
    /\ rdPos = 0 /\ rdRecords = <<>> /\ rdStatus = "idle" /\ fpSrc = NoSrc

(***************************************************************************)
(* The MSB machine                                                         *)
(***************************************************************************)
\* write_msb: one turn of its for loop
WritePhysicalRecord ==
    /\ mode = "msb" /\ wrStatus = "writing" /\ wrDone < Len(wrQueue)
    /\ LET Written(w) ==
             /\ fp' = [fp EXCEPT !.words = w.words]
             /\ wrStatus' = IF w.err # "" THEN w.err ELSE "writing"
             /\ wrDone' = IF w.err # "" THEN wrDone ELSE wrDone + 1
       IN  Written(write_physical_record(fp.words, wrQueue[wrDone + 1]))
    /\ UNCHANGED <<mode, wrQueue, rdPos, rdRecords, rdStatus, fpSrc>>
    /\ UNCHANGED <<rsdVars, dnfVars, emitVars, parVars, recVars, convVars>>

\* write_msb: the loop is exhausted and the function returns
WriteMsbReturn ==
    /\ mode = "msb" /\ wrStatus = "writing" /\ wrDone = Len(wrQueue)
    /\ wrStatus' = "done"
    /\ UNCHANGED <<mode, fp, wrQueue, wrDone, rdPos, rdRecords, rdStatus, fpSrc>>
    /\ UNCHANGED <<rsdVars, dnfVars, emitVars, parVars, recVars, convVars>>

\* read_msb(fp) on the bytes write_msb left in fp, from the start
ReadBack ==
    /\ mode = "msb" /\ wrStatus \notin {"idle", "writing"} /\ rdStatus = "idle"
    /\ rdStatus' = "reading"
    /\ rdPos' = 0
    /\ UNCHANGED <<mode, fp, wrQueue, wrDone, wrStatus, rdRecords, fpSrc>>
    /\ UNCHANGED <<rsdVars, dnfVars, emitVars, parVars, recVars, convVars>>

\* read_msb: one turn of its loop.  rdPos stays where the next record's
\* length field is read when the generator returns.
ReadPhysicalRecord ==
    /\ mode = "msb" /\ rdStatus = "reading"
    /\ LET Yielded(r) ==
             /\ rdStatus' = CASE r.res = "record" -> "reading"
                              [] r.res = "None"   -> "eof"
                              [] OTHER            -> r.res
             /\ rdRecords' = IF r.res = "record" THEN Append(rdRecords, r.rec) ELSE rdRecords
             /\ rdPos' = IF r.res = "None" THEN rdPos ELSE r.pos
       IN  Yielded(read_physical_record(fp, rdPos))
    /\ UNCHANGED <<mode, fp, wrQueue, wrDone, wrStatus, fpSrc>>
    /\ UNCHANGED <<rsdVars, dnfVars, emitVars, parVars, recVars, convVars>>

(***************************************************************************)
(* The RSD machine: from_floats applied to one payload.  The payload is    *)
(* [nv, np plot floats, nt, ntv, nt times ntp tree floats]: a producer     *)
(* that honours the shape writes np = nv and ntp = ntv.                    *)
(***************************************************************************)
PlotCounts  == {-33, -1, 0, 1, 2, 33, 34, 35}
PlotGiven   == {0, 1, 2, 33, 34}
TreeCounts  == {-1, 0, 3, 6, 17, 18}
TreeGiven   == {0, 3, 6, 16, 17}
TreeNumbers == {0, 1, 2}

RECURSIVE Repeat(_, _)
Repeat(s, n) == IF n <= 0 THEN <<>> ELSE s \o Repeat(s, n - 1)

RsdPayload(in) ==
    <<in.nv>> \o SubSeq(FullPlot, 1, in.np) \o <<in.nt, in.ntv>>
    \o Repeat(SubSeq(FullTree, 1, in.ntp), in.nt)

RsdPending == RsdError("pending")

InitRsdVars ==
    /\ rsdIn \in [nv : PlotCounts, np : PlotGiven, nt : TreeNumbers,
                  ntv : TreeCounts, ntp : TreeGiven]
    /\ rsdOut = RsdPending

IdleRsdVars ==
    /\ rsdIn = [nv |-> 0, np |-> 0, nt |-> 0, ntv |-> 0, ntp |-> 0]
    /\ rsdOut = RsdPending

\* RsdInitialDataRecord.from_floats(buf)
RsdFromFloats ==
    /\ mode = "rsd" /\ rsdOut = RsdPending
    /\ rsdOut' = RsdInitialDataRecord_from_floats(RsdPayload(rsdIn))
    /\ UNCHANGED <<mode, rsdIn, msbVars, dnfVars, emitVars, parVars, recVars, convVars>>

(***************************************************************************)
(* par.py: the DNF condition codec.  A condition is a sequence of groups,  *)
(* a group a sequence of constraints [var, values] (var is Var.id), a      *)
(* value a literal float or a (low, high) range.                           *)
(***************************************************************************)
Lit(v)    == [range |-> FALSE, a |-> v, b |-> 0]
Rng(l, h) == [range |-> TRUE,  a |-> l, b |-> h]
Con(var, values) == [var |-> var, values |-> values]

\* the loop of Constraint.to_floats over self.values
RECURSIVE TermFloats(_)
TermFloats(values) ==
    IF values = <<>> THEN <<>>
    ELSE LET Term(c) == IF c.range THEN <<c.a, FNeg(c.b)>> ELSE <<c.a>>
         IN  Term(Head(values)) \o TermFloats(Tail(values))

\* Constraint.to_floats with the count taken after the count itself is inserted
Constraint_to_floats_counting_itself(c) ==
    LET Counted(out) == <<Len(out) + 1>> \o out
    IN  Counted(<<c.var>> \o TermFloats(c.values))

\* Constraint.to_floats with the count taken before the var id is inserted
Constraint_to_floats_counting_terms(c) ==
    LET Counted(terms) == <<Len(terms), c.var>> \o terms
    IN  Counted(TermFloats(c.values))

\* Constraint.to_floats
Constraint_to_floats(c) ==
    LET Counted(out) == <<Len(out)>> \o out
    IN  Counted(<<c.var>> \o TermFloats(c.values))

\* x for c in g for x in c.to_floats()
RECURSIVE GroupFloats(_)
GroupFloats(g) ==
    IF g = <<>> THEN <<>> ELSE Constraint_to_floats(Head(g)) \o GroupFloats(Tail(g))

\* the for loop of DNFCondition.to_floats over self.groups[1:]
RECURSIVE RestGroups(_)
RestGroups(gs) ==
    IF gs = <<>> THEN <<>> ELSE <<0>> \o GroupFloats(Head(gs)) \o RestGroups(Tail(gs))

\* DNFCondition.to_floats with the separator appended after every group
DNFCondition_to_floats_trailing(groups) ==
    IF groups = <<>> THEN <<0>>
    ELSE GroupFloats(Head(groups)) \o RestGroups(Tail(groups)) \o <<0>>

\* DNFCondition.to_floats
DNFCondition_to_floats(groups) ==
    IF groups = <<>> THEN <<0>>
    ELSE GroupFloats(Head(groups)) \o RestGroups(Tail(groups))

\* Python's s[i:j] and s[i:] for i >= 0 and any j
PySlice(s, i, j) ==
    LET hi == IF j >= 0 THEN (IF j < Len(s) THEN j ELSE Len(s))
                        ELSE (IF Len(s) + j > 0 THEN Len(s) + j ELSE 0)
    IN  SubSeq(s, i + 1, hi)
PyFrom(s, i) ==
    LET lo == IF i >= 0 THEN (IF i < Len(s) THEN i ELSE Len(s))
                        ELSE (IF Len(s) + i > 0 THEN Len(s) + i ELSE 0)
    IN  SubSeq(s, lo + 1, Len(s))

\* the innermost while loop of from_floats: the values of one constraint
RECURSIVE SplitTerms(_)
SplitTerms(cst) ==
    IF cst = <<>> THEN <<>>
    ELSE IF Len(cst) > 1 /\ FLt(cst[2], 0)
         THEN <<Rng(cst[1], FNeg(cst[2]))>> \o SplitTerms(SubSeq(cst, 3, Len(cst)))
         ELSE <<Lit(cst[1])>> \o SplitTerms(Tail(cst))

\* the group loop of from_floats: [err, group, args]
RECURSIVE ReadGroup(_, _)
ReadGroup(args, group) ==
    IF Len(args) = 0 THEN [err |-> "", group |-> group, args |-> args]
    ELSE IF IntRaises(args[1]) THEN [err |-> IntError(args[1]), group |-> group, args |-> args]
    ELSE
    LET nv   == IntOf(args[1])
        rest == Tail(args)
    IN  IF nv = 0 THEN [err |-> "", group |-> group, args |-> rest]
        ELSE IF rest = <<>> THEN [err |-> "IndexError", group |-> group, args |-> rest]
        ELSE IF IntRaises(rest[1]) THEN [err |-> IntError(rest[1]), group |-> group, args |-> rest]
        ELSE ReadGroup(PyFrom(rest, nv),
                       Append(group, Con(IntOf(rest[1]), SplitTerms(PySlice(rest, 1, nv)))))

\* the outer loop of from_floats: [err, groups]
RECURSIVE ReadGroups(_, _)
ReadGroups(args, groups) ==
    IF Len(args) = 0 THEN [err |-> "", groups |-> groups]
    ELSE LET Group(g) ==
                IF g.err # "" THEN [err |-> g.err, groups |-> groups]
                ELSE ReadGroups(g.args,
                                IF g.group # <<>> THEN Append(groups, g.group) ELSE groups)
         IN  Group(ReadGroup(args, <<>>))

\* DNFCondition.from_floats
DNFCondition_from_floats(args) == ReadGroups(args, <<>>)

(***************************************************************************)
(* The DNF machine: a caller builds a condition, encodes it and decodes    *)
(* the floats again.                                                       *)
(***************************************************************************)
MaxFloats == 7   \* the floats a built condition encodes to

DnfVarIds == {1, 2}
DnfTerms  == {Lit(7), Lit(-5), Rng(5, 10), Rng(3, 0), Rng(-2, 4)}

\* the conditions of the scenarios: V42 in {3, (5,10)}; [[A]], [[B]]; and a
\* literal followed by a negative literal
CondV42       == << <<Con(42, <<Lit(3), Rng(5, 10)>>)>> >>
CondTwoGroups == << <<Con(1, <<Lit(7)>>)>>, <<Con(2, <<Lit(8)>>)>> >>
CondAmbiguous == << <<Con(1, <<Lit(3), Lit(-5)>>)>> >>

DnfPending == [err |-> "pending", groups |-> <<>>]

InitDnfVars ==
    /\ cond \in {<<>>, CondV42, CondTwoGroups, CondAmbiguous}
    /\ dnfFloats = <<>>
    /\ dnfBack = DnfPending
    /\ dnfPc = "build"

IdleDnfVars ==
    /\ cond = <<>> /\ dnfFloats = <<>> /\ dnfBack = DnfPending /\ dnfPc = "idle"

Fits(c) == Len(DNFCondition_to_floats(c)) <= MaxFloats

\* DNFCondition(groups) with one more (still empty) group
AddGroup ==
    /\ mode = "dnf" /\ dnfPc = "build"
    /\ Fits(Append(cond, <<>>))
    /\ cond' = Append(cond, <<>>)
    /\ UNCHANGED <<mode, dnfFloats, dnfBack, dnfPc, msbVars, rsdVars, emitVars, parVars, recVars, convVars>>

\* Constraint(var, []) appended to the last group
AddConstraint ==
    /\ mode = "dnf" /\ dnfPc = "build" /\ cond # <<>>
    /\ \E v \in DnfVarIds :
         LET n == Len(cond)
             c == [cond EXCEPT ![n] = Append(@, Con(v, <<>>))]
         IN  Fits(c) /\ cond' = c
    /\ UNCHANGED <<mode, dnfFloats, dnfBack, dnfPc, msbVars, rsdVars, emitVars, parVars, recVars, convVars>>

\* one more value in the last constraint of the last group
AddValue ==
    /\ mode = "dnf" /\ dnfPc = "build" /\ cond # <<>> /\ cond[Len(cond)] # <<>>
    /\ \E t \in DnfTerms :
         LET n == Len(cond)
             k == Len(cond[n])
             c == [cond EXCEPT ![n][k].values = Append(@, t)]
         IN  Fits(c) /\ cond' = c
    /\ UNCHANGED <<mode, dnfFloats, dnfBack, dnfPc, msbVars, rsdVars, emitVars, parVars, recVars, convVars>>

\* cond.to_floats()
DnfEncode ==
    /\ mode = "dnf" /\ dnfPc = "build"
    /\ dnfFloats' = DNFCondition_to_floats(cond)
    /\ dnfPc' = "encoded"
    /\ UNCHANGED <<mode, cond, dnfBack, msbVars, rsdVars, emitVars, parVars, recVars, convVars>>

\* DNFCondition.from_floats(floats)
DnfDecode ==
    /\ mode = "dnf" /\ dnfPc = "encoded"
    /\ dnfBack' = DNFCondition_from_floats(dnfFloats)
    /\ dnfPc' = "decoded"
    /\ UNCHANGED <<mode, cond, dnfFloats, msbVars, rsdVars, emitVars, parVars, recVars, convVars>>

(***************************************************************************)
(* par.py: ParWriter.emit.  buf is the list of strings appended; a token   *)
(* is a Python str (map(str, params)).                                     *)
(***************************************************************************)
NL == "\n"

\* the marker emit starts with (None is "")
FirstMarker(kind) ==
    CASE kind = "string"  -> "#"
      [] kind = "comment" -> "*"
      [] OTHER            -> ""

\* the marker of a continuation line
ContMarker(kind) ==
    CASE kind = "command" -> "    "
      [] kind = "string"  -> "#>> "
      [] kind = "comment" -> "*"
      [] OTHER            -> ""

\* self.buf after "if first: append(first)", extend(line), append("\n")
FlushLine(b, first, line) == (IF first # "" THEN Append(b, first) ELSE b) \o line \o <<NL>>

\* the body of emit's for loop for the tokens ps, from the state
\* (line, remain, first, buf): [err, buf]
RECURSIVE EmitLoop(_, _, _, _, _, _, _)
EmitLoop(ps, kind, wrap, line, remain, first, b) ==
    IF ps = <<>>
    THEN [err |-> "", buf |-> IF line # <<>> THEN FlushLine(b, first, line) ELSE b]
    ELSE
    LET p      == Head(ps)
        wraps  == remain - 1 - Len(p) <= 0
    IN  IF wraps /\ line = <<>> THEN [err |-> "ParError", buf |-> b]
        ELSE
        LET b1      == IF wraps THEN FlushLine(b, first, line) ELSE b
            remain1 == IF wraps THEN wrap - Len(ContMarker(kind)) ELSE remain
            line1   == IF wraps THEN <<>> ELSE line
            first1  == IF wraps THEN ContMarker(kind) ELSE first
            line2   == IF line1 # <<>> THEN Append(line1, " ") ELSE line1
            remain2 == IF line1 # <<>> THEN remain1 - 1 ELSE remain1
        IN  EmitLoop(Tail(ps), kind, wrap, Append(line2, p), remain2 - Len(p), first1, b1)

\* ParWriter.emit(*params, kind) on a writer whose buf is b: [err, buf]
ParWriter_emit(b, params, kind, wrap) ==
    EmitLoop(params, kind, wrap, <<>>, wrap - Len(FirstMarker(kind)), FirstMarker(kind), b)

(***************************************************************************)
(* The emit machine: one statement through a fresh ParWriter               *)
(***************************************************************************)
MaxParams == 3   \* tokens of a statement

Tokens    == {"AB", "7", "123456", "12345678", "1234567890ab"}
LineWraps == {10, 12}
Kinds     == {"command", "string", "comment"}

NoStmt == [kind |-> "command", params |-> <<>>, line_wrap |-> 0]

InitEmitVars ==
    /\ stmt \in [kind : Kinds, params : SeqsUpTo(Tokens, MaxParams), line_wrap : LineWraps]
    /\ buf = <<>>
    /\ emitStatus = "ready"

IdleEmitVars == stmt = NoStmt /\ buf = <<>> /\ emitStatus = "idle"

\* ParWriter.emit
Emit ==
    /\ mode = "emit" /\ emitStatus = "ready"
    /\ LET Emitted(r) ==
             /\ buf' = r.buf
             /\ emitStatus' = IF r.err # "" THEN r.err ELSE "done"
       IN  Emitted(ParWriter_emit(buf, stmt.params, stmt.kind, stmt.line_wrap))
    /\ UNCHANGED <<mode, stmt, msbVars, rsdVars, dnfVars, parVars, recVars, convVars>>

\* the lines of a buf: the strings between the newlines, each joined
RECURSIVE LinesOf(_, _)
LinesOf(b, cur) ==
    IF b = <<>> THEN (IF cur = "" THEN <<>> ELSE <<cur>>)
    ELSE IF Head(b) = NL THEN <<cur>> \o LinesOf(Tail(b), "")
    ELSE LinesOf(Tail(b), cur \o Head(b))

(***************************************************************************)
(* par.py: the records of a Par                                            *)
(***************************************************************************)
Control_fields == <<
    F("branch_stop_year", IntValue), F("max_events", IntValue),
    F("_3", Constant(0)),            F("_4", Constant(0)),
    F("_5", Constant(1000)),         F("_6", Constant(0)),
    F("_7", Constant(1)),            F("max_branches", IntValue),
    F("_9", Constant(0)),            F("_10", Constant(0)),
    F("max_plots", IntValue),        F("smr_year", IntValue),
    F("_13", Constant(0)),           F("_14", Constant(0)),
    F("force_stop_year", IntValue),  F("land_value_mode", IntValue),
    F("sim_mode", IntValue) >>

Output_fields == <<
    F("msc", BoolValue),             F("forest_sum", BoolValue),
    F("terminal_summary", Value),    F("terminal_data_report", Value),
    F("unit_sum", BoolValue),        F("_6", Constant(0)),
    F("_7", Constant(0)),            F("_8", Constant(0)),
    F("smr", BoolValue),             F("_10", Constant(0)) >>

\* Record.from_floats(args): decode over every field of the schema
Record_from_floats(schema, args) == Record_decode(schema, args, <<>>)

\* EventDefaults.id; the model's key for "default", which no int() yields
DefaultId == -1000000

\* an attribute that is None
None == [some |-> FALSE, v |-> <<>>]
Some(v) == [some |-> TRUE, v |-> v]

\* Par()
NewPar == [events |-> NoAttrs, order |-> <<>>, includes |-> <<>>,
           years |-> None, output |-> None, control |-> None]

\* ParEventLinks(): two defaultdict(list), id -> ids
NewLinks == [comparable |-> NoAttrs, precedessors |-> NoAttrs, corder |-> <<>>, porder |-> <<>>]

\* EventMixin.__init__: a is the attributes that are not None
\* Event(id, name): calls = []; EventDefaults(): no calls attribute
NewEvent(id, name) == [id |-> id, name |-> name, hasCalls |-> TRUE, calls |-> <<>>, a |-> NoAttrs]
NewEventDefaults   == [id |-> DefaultId, name |-> "", hasCalls |-> FALSE, calls |-> <<>>,
                       a |-> NoAttrs]

\* Par.add_event: [err, par]
Par_add_event(pr, ev) ==
    IF ev.id \in DOMAIN pr.events THEN [err |-> "ParError", par |-> pr]
    ELSE [err |-> "", par |-> [pr EXCEPT !.events = SetAttr(@, ev.id, ev),
                                         !.order = Append(@, ev.id)]]

\* link_events that never looks the id up: always an EventRef
Ref_never_the_event(pr, eid) == [id |-> eid, resolved |-> FALSE]

\* EventRef(eid), or the Event itself when par.events holds eid
Ref(pr, eid) == [id |-> eid, resolved |-> eid \in DOMAIN pr.events]

\* one loop of ParEventLinks.link_events: the ids of table, in the order the
\* keys were created, set as attribute attr of the events that exist
RECURSIVE LinkLoop(_, _, _, _)
LinkLoop(pr, table, keys, attr) ==
    IF keys = <<>> THEN pr
    ELSE LET id   == Head(keys)
             refs == [i \in DOMAIN table[id] |-> Ref(pr, table[id][i])]
         IN  LinkLoop(IF id \in DOMAIN pr.events
                      THEN [pr EXCEPT !.events[id].a = SetAttr(@, attr, refs)]
                      ELSE pr,
                      table, Tail(keys), attr)

\* ParEventLinks.link_events
link_events(lk, pr) ==
    LinkLoop(LinkLoop(pr, lk.comparable, lk.corder, "comparable_events"),
             lk.precedessors, lk.porder, "feasible_precedessors")

\* RoutineCall.from_floats: [err, call]
RoutineCall_from_floats(args) ==
    IF args = <<>> THEN [err |-> "IndexError", call |-> [routine |-> 0, args |-> <<>>]]
    ELSE [err |-> "", call |-> [routine |-> args[1], args |-> PyFrom(args, 2)]]

(***************************************************************************)
(* par_parse.py.  A command is what the grammar front end hands over:      *)
(* name and params, the params split here by what they are: nums (the      *)
(* numbers), ident (the "id name" string of an event), attrs (the other    *)
(* strings of an event, each [name, args, numeric]: its first word, the    *)
(* float() of the other words, and whether float() took them all) and      *)
(* path (the string of an include).                                        *)
(***************************************************************************)
\* the names the symbol table knows; sym[name] raises KeyError for others
SymNames == {"VUODET", "TULOSTUS", "SIMULOINNIN_OHJAUS", "LUE", "TAPAHTUMA",
             "TAPAHTUMA_OLETUSARVOT", "TAPAHTUMAVUODET", "HAARAUTUMINEN",
             "TODENNAKOISYYS", "METSIKKOEHDOT", "LYHIMMAT_TOTEUTUSVALIT",
             "VASTAAVAT_TAPAHTUMAT", "SALLITUT_EDELTAJAT", "TAPAHTUMAKUTSU"}
SymHas(name) == name \in SymNames
Sym(name) == name

\* the keys of _commands (the @command decorators)
CommandNames == {"TAPAHTUMA", "TAPAHTUMA_OLETUSARVOT", "VUODET", "TULOSTUS",
                 "SIMULOINNIN_OHJAUS", "LUE"}

\* defaultdict: table[id].extend(ids) creates the key
Extend(table, order, id, ids) ==
    [table |-> SetAttr(table, id, (IF id \in DOMAIN table THEN table[id] ELSE <<>>) \o ids),
     order |-> IF id \in DOMAIN table THEN order ELSE Append(order, id)]

\* map(int, args) consumed by extend: the ints before the first float int() rejects
RECURSIVE IntsOf(_)
IntsOf(args) ==
    IF args = <<>> THEN [err |-> "", ids |-> <<>>]
    ELSE IF IntRaises(Head(args)) THEN [err |-> IntError(Head(args)), ids |-> <<>>]
    ELSE LET Cons(rest) == [err |-> rest.err, ids |-> <<IntOf(Head(args))>> \o rest.ids]
         IN  Cons(IntsOf(Tail(args)))

\* parse_event_param without its try: the exception of the lookup or of
\* float() propagates to cmd_event
SkipArgument_raising(lk, ev, param) ==
    [err |-> IF SymHas(param.name) THEN "ValueError" ELSE "KeyError",
     ev |-> ev, links |-> lk, warn |-> <<>>]

\* the except branch of parse_event_param: print the warning, return
SkipArgument(lk, ev, param) ==
    [err |-> "", ev |-> ev, links |-> lk, warn |-> <<[w |-> "argument", name |-> param.name]>>]

\* the names parse_event_param has a branch for
EventParamNames == {"TAPAHTUMAVUODET", "LYHIMMAT_TOTEUTUSVALIT", "HAARAUTUMINEN",
                    "VASTAAVAT_TAPAHTUMAT", "SALLITUT_EDELTAJAT", "METSIKKOEHDOT",
                    "TODENNAKOISYYS", "TAPAHTUMAKUTSU"}

\* parse_event_param: [err, ev, links, warn]; warn is the diagnostic printed
parse_event_param(lk, ev, param) ==
    IF ~SymHas(param.name) \/ ~param.numeric
    THEN SkipArgument(lk, ev, param)
    ELSE
    LET name == Sym(param.name)
        args == param.args
        ok(e, l) == [err |-> "", ev |-> e, links |-> l, warn |-> <<>>]
        raise(x, l) == [err |-> x, ev |-> ev, links |-> l, warn |-> <<>>]
    IN  CASE name = "TAPAHTUMAVUODET" ->
                IF args = <<>> THEN raise("IndexError", lk)
                ELSE ok([ev EXCEPT !.a = SetAttr(SetAttr(@, "years", PySlice(args, 0, -1)),
                                                 "repeat_interval", args[Len(args)])], lk)
          [] name = "LYHIMMAT_TOTEUTUSVALIT" ->
                ok([ev EXCEPT !.a = SetAttr(@, "min_intervals", args)], lk)
          [] name = "HAARAUTUMINEN" ->
                ok([ev EXCEPT !.a = SetAttr(@, "branching", args)], lk)
          [] name = "VASTAAVAT_TAPAHTUMAT" ->
                LET Linked(ids, l) == IF ids.err # "" THEN raise(ids.err, l) ELSE ok(ev, l)
                    Extended(ids, e) ==
                      Linked(ids, [lk EXCEPT !.comparable = e.table, !.corder = e.order])
                    Ids(ids) == Extended(ids, Extend(lk.comparable, lk.corder, ev.id, ids.ids))
                IN  Ids(IntsOf(args))
          [] name = "SALLITUT_EDELTAJAT" ->
                LET Linked(ids, l) == IF ids.err # "" THEN raise(ids.err, l) ELSE ok(ev, l)
                    Extended(ids, e) ==
                      Linked(ids, [lk EXCEPT !.precedessors = e.table, !.porder = e.order])
                    Ids(ids) == Extended(ids, Extend(lk.precedessors, lk.porder, ev.id, ids.ids))
                IN  Ids(IntsOf(args))
          [] name = "METSIKKOEHDOT" ->
                LET Cond(c) ==
                      IF c.err # "" THEN raise(c.err, lk)
                      ELSE ok([ev EXCEPT !.a = SetAttr(@, "condition", c.groups)], lk)
                IN  Cond(DNFCondition_from_floats(args))
          [] name = "TODENNAKOISYYS" ->
                ok([ev EXCEPT !.a = SetAttr(@, "probability", args)], lk)
          [] name = "TAPAHTUMAKUTSU" ->
                LET c == RoutineCall_from_floats(args)
                IN  IF ~ev.hasCalls THEN raise("AttributeError", lk)
                    ELSE IF c.err # "" THEN raise(c.err, lk)
                    ELSE ok([ev EXCEPT !.calls = Append(@, c.call)], lk)
          [] OTHER -> raise("ParError", lk)

\* the for loop of cmd_event over the attribute parameters: [err, ev, links, warn]
RECURSIVE EventParams(_, _, _, _)
EventParams(lk, ev, params, warn) ==
    IF params = <<>> THEN [err |-> "", ev |-> ev, links |-> lk, warn |-> warn]
    ELSE LET Param(r) ==
                IF r.err # ""
                THEN [err |-> "ParError", ev |-> r.ev, links |-> r.links, warn |-> warn \o r.warn]
                ELSE EventParams(r.links, r.ev, Tail(params), warn \o r.warn)
         IN  Param(parse_event_param(lk, ev, Head(params)))

\* the state of a Parser and of the loop of parse_par around it
NewParser == [par |-> NewPar, links |-> NewLinks, warnings |-> <<>>, status |-> "parsing"]

\* cmd_event
cmd_event(ps, cmd) ==
    LET Added(r, ad) ==
          IF r.err # ""
          THEN [ps EXCEPT !.links = r.links, !.warnings = @ \o r.warn, !.status = r.err]
          ELSE IF ad.err # ""
          THEN [ps EXCEPT !.links = r.links, !.warnings = @ \o r.warn, !.status = ad.err]
          ELSE [ps EXCEPT !.links = r.links, !.warnings = @ \o r.warn, !.par = ad.par]
        Params(r) == Added(r, Par_add_event(ps.par, r.ev))
        Made(ev) == Params(EventParams(ps.links, ev, cmd.attrs, <<>>))
    IN  Made(IF cmd.name = "TAPAHTUMA" THEN NewEvent(cmd.ident.id, cmd.ident.name)
             ELSE NewEventDefaults)

\* cmd_years
cmd_years(ps, cmd) == [ps EXCEPT !.par.years = Some(cmd.nums)]

\* cmd_output
cmd_output(ps, cmd) ==
    LET Set(r) == IF r.err # "" THEN [ps EXCEPT !.status = r.err]
                  ELSE [ps EXCEPT !.par.output = Some(r.rec)]
    IN  Set(Record_from_floats(Output_fields, cmd.nums))

\* cmd_control
cmd_control(ps, cmd) ==
    LET Set(r) == IF r.err # "" THEN [ps EXCEPT !.status = r.err]
                  ELSE [ps EXCEPT !.par.control = Some(r.rec)]
    IN  Set(Record_from_floats(Control_fields, cmd.nums))

\* cmd_include
cmd_include(ps, cmd) == [ps EXCEPT !.par.includes = Append(@, cmd.path)]

\* parse_par without the except branch: the KeyError of the lookup propagates
SkipUnknown_raising(ps, cmd) == [ps EXCEPT !.status = "KeyError"]

\* the except KeyError branch of parse_par: print the warning, continue
SkipUnknown(ps, cmd) ==
    [ps EXCEPT !.warnings = Append(@, [w |-> "command", name |-> cmd.name])]

\* _commands[sym[p.name]] found: cmd(parser, p)
Dispatch(ps, cmd) ==
    CASE Sym(cmd.name) \in {"TAPAHTUMA", "TAPAHTUMA_OLETUSARVOT"} -> cmd_event(ps, cmd)
      [] Sym(cmd.name) = "VUODET"             -> cmd_years(ps, cmd)
      [] Sym(cmd.name) = "TULOSTUS"           -> cmd_output(ps, cmd)
      [] Sym(cmd.name) = "SIMULOINNIN_OHJAUS" -> cmd_control(ps, cmd)
      [] Sym(cmd.name) = "LUE"                -> cmd_include(ps, cmd)

\* whether the lookup of parse_par raises KeyError
HasHandler(cmd) == SymHas(cmd.name) /\ Sym(cmd.name) \in CommandNames

\* one turn of the for loop of parse_par
parse_par_step(ps, cmd) ==
    IF ~HasHandler(cmd) THEN SkipUnknown(ps, cmd) ELSE Dispatch(ps, cmd)

\* parser.links.link_events(parser.par); return parser.par
parse_par_return(ps) == [ps EXCEPT !.par = link_events(ps.links, ps.par), !.status = "linked"]

\* parse_par over the whole sequence: the Parser it ends with
RECURSIVE parse_par_loop(_, _)
parse_par_loop(ps, cs) ==
    IF ps.status # "parsing" THEN ps
    ELSE IF cs = <<>> THEN parse_par_return(ps)
    ELSE parse_par_loop(parse_par_step(ps, Head(cs)), Tail(cs))

parse_par(cs) == parse_par_loop(NewParser, cs)

\* a command and a string of an event as the grammar hands them over
NoIdent == [id |-> 0, name |-> ""]
Cmd(name, ident, attrs, nums, path) ==
    [name |-> name, ident |-> ident, attrs |-> attrs, nums |-> nums, path |-> path]
Attr(name, args) == [name |-> name, args |-> args, numeric |-> TRUE]

(***************************************************************************)
(* par.py: to_json, from_json and emit of a Par.  A dict is the function   *)
(* from its keys; the events dict is [order, of]: its keys in insertion    *)
(* order and the event dict of each, a key being the int() of the id.      *)
(***************************************************************************)
\* Var.name as get_var makes it of an id: f"var{x}"
Var_name(id) == <<"var", id>>

\* get_var of a string that starts with "var": the int() of the rest
get_var(name) == name[2]

\* Constraint.to_json, Constraint.from_json
Constraint_to_json(c)   == [name |-> Var_name(c.var), values |-> c.values]
Constraint_from_json(d) == Con(get_var(d.name), d.values)

\* DNFCondition.to_json, DNFCondition.from_json
DNFCondition_to_json(groups) ==
    [g \in DOMAIN groups |-> [i \in DOMAIN groups[g] |-> Constraint_to_json(groups[g][i])]]
DNFCondition_from_json(d) ==
    [g \in DOMAIN d |-> [i \in DOMAIN d[g] |-> Constraint_from_json(d[g][i])]]

\* e.id for e in a list of Event and EventRef
RefIds(refs) == [i \in DOMAIN refs |-> refs[i].id]

\* the attributes that hold a list of event references
RefAttrs == {"comparable_events", "feasible_precedessors"}

\* EventMixin.to_json: repeat_interval when it is not None, condition when it
\* is set (a DNFCondition is truthy), a list when it is not empty
EventMixin_to_json(ev) ==
    LET keys == {k \in DOMAIN ev.a : k \in {"repeat_interval", "condition"} \/ ev.a[k] # <<>>}
    IN  [k \in keys |-> CASE k \in RefAttrs  -> RefIds(ev.a[k])
                          [] k = "condition" -> DNFCondition_to_json(ev.a[k])
                          [] OTHER           -> ev.a[k]]

\* Event.to_json; EventDefaults has EventMixin.to_json
Event_to_json(ev) ==
    LET Calls(out) == IF ev.calls # <<>> THEN SetAttr(out, "calls", ev.calls) ELSE out
    IN  IF ev.hasCalls THEN Calls(SetAttr(EventMixin_to_json(ev), "name", ev.name))
        ELSE EventMixin_to_json(ev)

\* EventMixin.from_json: d.get of five keys, condition when d has it
EventMixin_from_json(ev, d) ==
    LET keys == DOMAIN d \cap {"years", "repeat_interval", "branching", "probability",
                               "min_intervals", "condition"}
    IN  [ev EXCEPT !.a = [k \in keys |-> IF k = "condition" THEN DNFCondition_from_json(d[k])
                                         ELSE d[k]]]

\* Event.from_json: [err, ev]
Event_from_json(id, d) ==
    IF id = DefaultId THEN [err |-> "", ev |-> EventMixin_from_json(NewEventDefaults, d)]
    ELSE IF "name" \notin DOMAIN d THEN [err |-> "KeyError", ev |-> NewEventDefaults]
    ELSE [err |-> "",
          ev |-> EventMixin_from_json(
                     [NewEvent(id, d["name"]) EXCEPT
                         !.calls = IF "calls" \in DOMAIN d THEN d["calls"] ELSE <<>>], d)]

\* the loop of Par.from_json over d["events"].items(): [err, par, links]
RECURSIVE FromJsonEvents(_, _, _, _)
FromJsonEvents(pr, lk, evs, ids) ==
    IF ids = <<>> THEN [err |-> "", par |-> pr, links |-> lk]
    ELSE LET id == Head(ids)
             Comp(l) == IF "comparable_events" \notin DOMAIN evs[id] THEN l
                        ELSE LET Put(x) == [l EXCEPT !.comparable = x.table, !.corder = x.order]
                             IN  Put(Extend(l.comparable, l.corder, id,
                                            evs[id]["comparable_events"]))
             Prec(l) == IF "feasible_precedessors" \notin DOMAIN evs[id] THEN l
                        ELSE LET Put(x) == [l EXCEPT !.precedessors = x.table, !.porder = x.order]
                             IN  Put(Extend(l.precedessors, l.porder, id,
                                            evs[id]["feasible_precedessors"]))
             Added(r, ad) ==
                 IF r.err # "" THEN [err |-> r.err, par |-> pr, links |-> lk]
                 ELSE IF ad.err # "" THEN [err |-> ad.err, par |-> pr, links |-> lk]
                 ELSE FromJsonEvents(ad.par, Prec(Comp(lk)), evs, Tail(ids))
             Made(r) == Added(r, Par_add_event(pr, r.ev))
         IN  Made(Event_from_json(id, evs[id]))

\* Par.from_json: [err, par, links]; links is its local ParEventLinks
Par_from_json(d) ==
    LET Rest(r) ==
          IF r.err # "" THEN r
          ELSE [err |-> "", links |-> r.links,
                par |-> [link_events(r.links, r.par) EXCEPT
                   !.includes = IF "includes" \in DOMAIN d THEN @ \o d["includes"] ELSE @,
                   !.years    = IF "years" \in DOMAIN d THEN Some(d["years"]) ELSE @,
                   !.output   = IF "output" \in DOMAIN d
                                THEN Some(Record_from_json(Output_fields, d["output"])) ELSE @,
                   !.control  = IF "control" \in DOMAIN d
                                THEN Some(Record_from_json(Control_fields, d["control"])) ELSE @]]
    IN  Rest(IF "events" \in DOMAIN d
             THEN FromJsonEvents(NewPar, NewLinks, d["events"].of, d["events"].order)
             ELSE [err |-> "", par |-> NewPar, links |-> NewLinks])

\* Par.to_json
Par_to_json(pr) ==
    LET keys == (IF pr.order # <<>> THEN {"events"} ELSE {})
                \cup (IF pr.includes # <<>> THEN {"includes"} ELSE {})
                \cup (IF pr.years.some THEN {"years"} ELSE {})
                \cup (IF pr.output.some THEN {"output"} ELSE {})
                \cup (IF pr.control.some THEN {"control"} ELSE {})
    IN  [k \in keys |->
           CASE k = "events"   -> [order |-> pr.order,
                                   of |-> [id \in DOMAIN pr.events |-> Event_to_json(pr.events[id])]]
             [] k = "includes" -> pr.includes
             [] k = "years"    -> pr.years.v
             [] k = "output"   -> Record_to_json(Output_fields, pr.output.v)
             [] k = "control"  -> Record_to_json(Control_fields, pr.control.v)]

\* RoutineCall.to_floats
RoutineCall_to_floats(c) == <<c.routine, 1>> \o c.args

\* EventMixin.emit: the strings it writes, each as the grammar reads it back:
\* the name and the numbers after it
EventMixin_emit(ev) ==
    LET Has(k)  == k \in DOMAIN ev.a /\ ev.a[k] # <<>>
        years   == (IF Has("years") THEN ev.a["years"] ELSE <<>>)
                   \o (IF "repeat_interval" \in DOMAIN ev.a THEN <<ev.a["repeat_interval"]>>
                       ELSE <<>>)
        List(k, name) == IF Has(k) THEN <<Attr(name, ev.a[k])>> ELSE <<>>
        Refs(k, name) == IF Has(k) THEN <<Attr(name, RefIds(ev.a[k]))>> ELSE <<>>
    IN  (IF years # <<>> THEN <<Attr("TAPAHTUMAVUODET", years)>> ELSE <<>>)
        \o List("branching", "HAARAUTUMINEN")
        \o List("probability", "TODENNAKOISYYS")
        \o (IF "condition" \in DOMAIN ev.a
            THEN <<Attr("METSIKKOEHDOT", DNFCondition_to_floats(ev.a["condition"]))>> ELSE <<>>)
        \o List("min_intervals", "LYHIMMAT_TOTEUTUSVALIT")
        \o Refs("comparable_events", "VASTAAVAT_TAPAHTUMAT")
        \o Refs("feasible_precedessors", "SALLITUT_EDELTAJAT")

\* Event.emit and EventDefaults.emit: the command with its strings; the
\* string of ident is "%d %s", which cmd_event splits again
Event_emit(ev) ==
    IF ev.hasCalls
    THEN Cmd("TAPAHTUMA", [id |-> ev.id, name |-> ev.name],
             EventMixin_emit(ev)
             \o [i \in DOMAIN ev.calls |-> Attr("TAPAHTUMAKUTSU", RoutineCall_to_floats(ev.calls[i]))],
             <<>>, "")
    ELSE Cmd("TAPAHTUMA_OLETUSARVOT", NoIdent, EventMixin_emit(ev), <<>>, "")

\* Par.emit: [err, stmts], the commands of the text in the order written
Par_emit(pr) ==
    LET NoRecord == [err |-> "", out |-> <<>>]
        Written(o, c) ==
          IF o.err # "" THEN [err |-> o.err, stmts |-> <<>>]
          ELSE IF c.err # "" THEN [err |-> c.err, stmts |-> <<>>]
          ELSE [err |-> "",
                stmts |-> (IF pr.years.some THEN <<Cmd("VUODET", NoIdent, <<>>, pr.years.v, "")>>
                           ELSE <<>>)
                   \o (IF pr.output.some THEN <<Cmd("TULOSTUS", NoIdent, <<>>, o.out, "")>>
                       ELSE <<>>)
                   \o (IF pr.control.some
                       THEN <<Cmd("SIMULOINNIN_OHJAUS", NoIdent, <<>>, c.out, "")>> ELSE <<>>)
                   \o [i \in DOMAIN pr.order |-> Event_emit(pr.events[pr.order[i]])]
                   \o [i \in DOMAIN pr.includes |-> Cmd("LUE", NoIdent, <<>>, <<>>, pr.includes[i])]]
    IN  Written(IF pr.output.some THEN Record_to_floats(Output_fields, pr.output.v) ELSE NoRecord,
                IF pr.control.some THEN Record_to_floats(Control_fields, pr.control.v) ELSE NoRecord)

(***************************************************************************)
(* The PAR machine: parse_par over a sequence of commands, or Par.from_json*)
(* of a document; then, as cli.py convert does, to_json or emit of the     *)
(* model, each read back                                                   *)
(***************************************************************************)
MaxCmds == 3   \* commands in the sequence

CmdYears   == Cmd("VUODET", NoIdent, <<>>, <<1, 10>>, "")
CmdInclude == Cmd("LUE", NoIdent, <<>>, <<>>, "more.par")
CmdOutput  == Cmd("TULOSTUS", NoIdent, <<>>, <<1, 0, 3, 4, 1, 0, 0, 0, 1, 0>>, "")
\* slot 5 of a control record must be 1000
CmdControlBad == Cmd("SIMULOINNIN_OHJAUS", NoIdent, <<>>, [i \in 1..17 |-> 0], "")
\* event 1 names event 2 (defined later, or never) and event 9 (never defined)
CmdEvent1  == Cmd("TAPAHTUMA", [id |-> 1, name |-> "thinning"],
                  <<Attr("TAPAHTUMAVUODET", <<5, 10>>),
                    Attr("VASTAAVAT_TAPAHTUMAT", <<2, 9>>)>>, <<>>, "")
\* event 2: an argument list float() rejects, between two attributes
CmdEvent2  == Cmd("TAPAHTUMA", [id |-> 2, name |-> "clear cut"],
                  <<Attr("SALLITUT_EDELTAJAT", <<1>>),
                    [Attr("TODENNAKOISYYS", <<>>) EXCEPT !.numeric = FALSE],
                    Attr("TAPAHTUMAKUTSU", <<3, 1, 4>>)>>, <<>>, "")
\* an attribute the symbol table knows and an event does not have
CmdEvent3  == Cmd("TAPAHTUMA", [id |-> 3, name |-> "odd"],
                  <<Attr("HAARAUTUMINEN", <<1>>), Attr("VUODET", <<1>>)>>, <<>>, "")
CmdDefaults == Cmd("TAPAHTUMA_OLETUSARVOT", NoIdent,
                   <<Attr("LYHIMMAT_TOTEUTUSVALIT", <<10>>),
                     Attr("METSIKKOEHDOT", <<2, 1, 7, 0, 2, 2, 8>>)>>, <<>>, "")
\* a word the symbol table does not know, and one it knows that is no command
CmdForeign   == Cmd("FOO", NoIdent, <<>>, <<1, 2>>, "")
CmdNoHandler == Cmd("TAPAHTUMAVUODET", NoIdent, <<>>, <<5, 10>>, "")

\* event 4: a repeat interval and no years
CmdEvent4  == Cmd("TAPAHTUMA", [id |-> 4, name |-> "repeat"],
                  <<Attr("TAPAHTUMAVUODET", <<10>>)>>, <<>>, "")

CmdPool == {CmdYears, CmdInclude, CmdOutput, CmdControlBad, CmdEvent1, CmdEvent2,
            CmdEvent3, CmdEvent4, CmdDefaults, CmdForeign, CmdNoHandler}

\* the JSON documents: years without a repeat interval; references forward,
\* back and to no event; the defaults with a condition; an event with no name
NoDoc == [none |-> TRUE]
DocYears == [events |-> [order |-> <<1>>,
                         of |-> (1 :> [name |-> "thinning", years |-> <<5, 10>>])]]
DocRefs  == [events |-> [order |-> <<1, 2>>,
                         of |-> (1 :> [name |-> "thinning", repeat_interval |-> 10,
                                       comparable_events |-> <<2, 9>>]
                              @@ 2 :> [name |-> "clear cut", feasible_precedessors |-> <<1>>,
                                       calls |-> <<[routine |-> 3, args |-> <<4>>]>>])],
             years |-> <<1, 10>>, includes |-> <<"more.par">>]
DocDefaults == [events |-> [order |-> <<DefaultId>>,
                            of |-> (DefaultId :> [min_intervals |-> <<10>>,
                                       condition |-> << <<[name |-> Var_name(1),
                                                           values |-> <<Lit(7)>>]>> >>])],
                output |-> [msc |-> 1, forest_sum |-> 0, terminal_summary |-> 3,
                            terminal_data_report |-> 4, unit_sum |-> 1, smr |-> 1]]
DocNoName == [events |-> [order |-> <<3>>, of |-> (3 :> [years |-> <<5>>])]]

DocPool == {DocYears, DocRefs, DocDefaults, DocNoName}

InitParVars ==
    /\ cmds \in SeqsUpTo(CmdPool, MaxCmds)
    /\ cmdIdx = 0
    /\ par = NewPar
    /\ links = NewLinks
    /\ warnings = <<>>
    /\ parStatus \in {"parsing", "loading"}

IdleParVars ==
    /\ cmds = <<>> /\ cmdIdx = 0 /\ par = NewPar /\ links = NewLinks
    /\ warnings = <<>> /\ parStatus = "idle"

NotLoaded == [err |-> "pending", par |-> NewPar, links |-> NewLinks]
NotEmitted == [err |-> "pending", stmts |-> <<>>]

\* the input is commands to parse, or a document to load and no commands
InitConvVars ==
    /\ \/ parStatus = "parsing" /\ doc = NoDoc
       \/ parStatus = "loading" /\ cmds = <<>> /\ doc \in DocPool
    /\ json = NoDoc /\ back = NotLoaded /\ text = NotEmitted /\ reparsed = NewParser
    /\ convPc = "model"

IdleConvVars ==
    /\ doc = NoDoc /\ json = NoDoc /\ back = NotLoaded /\ text = NotEmitted
    /\ reparsed = NewParser /\ convPc = "idle"

\* the Parser the variables hold
CurParser == [par |-> par, links |-> links, warnings |-> warnings, status |-> parStatus]

\* parse_par: one turn of its for loop
ParseCommand ==
    /\ mode = "par" /\ parStatus = "parsing" /\ cmdIdx < Len(cmds)
    /\ LET Stepped(ps) ==
             /\ par' = ps.par
             /\ links' = ps.links
             /\ warnings' = ps.warnings
             /\ parStatus' = ps.status
       IN  Stepped(parse_par_step(CurParser, cmds[cmdIdx + 1]))
    /\ cmdIdx' = cmdIdx + 1
    /\ UNCHANGED <<mode, cmds, msbVars, rsdVars, dnfVars, emitVars, recVars, convVars>>

\* parse_par: the loop is exhausted; link_events, return
ParseReturn ==
    /\ mode = "par" /\ parStatus = "parsing" /\ cmdIdx = Len(cmds)
    /\ LET Returned(ps) ==
             /\ par' = ps.par
             /\ parStatus' = ps.status
       IN  Returned(parse_par_return(CurParser))
    /\ UNCHANGED <<mode, cmds, cmdIdx, links, warnings, msbVars, rsdVars, dnfVars, emitVars, recVars, convVars>>

\* Par.from_json(doc)
LoadJson ==
    /\ mode = "par" /\ parStatus = "loading"
    /\ LET Loaded(r) ==
             /\ par' = r.par
             /\ links' = r.links
             /\ parStatus' = IF r.err = "" THEN "linked" ELSE r.err
       IN  Loaded(Par_from_json(doc))
    /\ UNCHANGED <<mode, cmds, cmdIdx, warnings, msbVars, rsdVars, dnfVars, emitVars, recVars, convVars>>

\* par.to_json()
ToJson ==
    /\ mode = "par" /\ parStatus = "linked" /\ convPc = "model"
    /\ json' = Par_to_json(par)
    /\ convPc' = "json"
    /\ UNCHANGED <<mode, doc, back, text, reparsed, msbVars, rsdVars, dnfVars, emitVars, parVars, recVars>>

\* Par.from_json(json)
FromJson ==
    /\ mode = "par" /\ convPc = "json"
    /\ back' = Par_from_json(json)
    /\ convPc' = "back"
    /\ UNCHANGED <<mode, doc, json, text, reparsed, msbVars, rsdVars, dnfVars, emitVars, parVars, recVars>>

\* par.emit(out)
EmitPar ==
    /\ mode = "par" /\ parStatus = "linked" /\ convPc = "model"
    /\ text' = Par_emit(par)
    /\ convPc' = "text"
    /\ UNCHANGED <<mode, doc, json, back, reparsed, msbVars, rsdVars, dnfVars, emitVars, parVars, recVars>>

\* parse_par over the text that was written
ParseEmitted ==
    /\ mode = "par" /\ convPc = "text" /\ text.err = ""
    /\ reparsed' = parse_par(text.stmts)
    /\ convPc' = "reparsed"
    /\ UNCHANGED <<mode, doc, json, back, text, msbVars, rsdVars, dnfVars, emitVars, parVars, recVars>>

(***************************************************************************)
(* The record machine: a Control or Output record with every field that is *)
(* no Constant set (an int in an IntValue, a bool or another truthy or     *)
(* falsy number in a BoolValue, a float in a Value) is encoded, decoded    *)
(* and encoded again.                                                      *)
(***************************************************************************)
IntFieldValues   == {0, 7}
BoolFieldValues  == {0, 1, 2}
FloatFieldValues == {0, 3, -Half}

SchemaOf(kind) == IF kind = "Control" THEN Control_fields ELSE Output_fields

FieldOf(schema, n) == schema[CHOOSE i \in DOMAIN schema : schema[i].name = n].f

\* the names of the visible fields of one of the given kinds
NamesOfKind(schema, kinds) == {n \in VisibleNames(schema) : FieldOf(schema, n).kind \in kinds}

\* the records of a schema with every visible field set
RecordsOf(schema) ==
    {i @@ b @@ v : i \in [NamesOfKind(schema, {"IntValue"}) -> IntFieldValues],
                   b \in [NamesOfKind(schema, {"BoolValue"}) -> BoolFieldValues],
                   v \in [NamesOfKind(schema, {"Value"}) -> FloatFieldValues]}

RecPending == [err |-> "pending", out |-> <<>>]
RecNotDecoded == [err |-> "pending", rec |-> NoAttrs, buf |-> <<>>]

InitRecVars ==
    /\ recKind \in {"Control", "Output"}
    /\ recIn \in RecordsOf(SchemaOf(recKind))
    /\ recFloats = RecPending /\ recBack = RecNotDecoded /\ recAgain = RecPending
    /\ recPc = "made"

IdleRecVars ==
    /\ recKind = "" /\ recIn = NoAttrs
    /\ recFloats = RecPending /\ recBack = RecNotDecoded /\ recAgain = RecPending
    /\ recPc = "idle"

\* recIn.to_floats()
RecToFloats ==
    /\ mode = "rec" /\ recPc = "made"
    /\ recFloats' = Record_to_floats(SchemaOf(recKind), recIn)
    /\ recPc' = "encoded"
    /\ UNCHANGED <<mode, recKind, recIn, recBack, recAgain>>
    /\ UNCHANGED <<msbVars, rsdVars, dnfVars, emitVars, parVars, convVars>>

\* Control.from_floats(floats) or Output.from_floats(floats)
RecFromFloats ==
    /\ mode = "rec" /\ recPc = "encoded" /\ recFloats.err = ""
    /\ recBack' = Record_from_floats(SchemaOf(recKind), recFloats.out)
    /\ recPc' = "decoded"
    /\ UNCHANGED <<mode, recKind, recIn, recFloats, recAgain>>
    /\ UNCHANGED <<msbVars, rsdVars, dnfVars, emitVars, parVars, convVars>>

\* to_floats() of the decoded record
RecToFloatsAgain ==
    /\ mode = "rec" /\ recPc = "decoded" /\ recBack.err = ""
    /\ recAgain' = Record_to_floats(SchemaOf(recKind), recBack.rec)
    /\ recPc' = "reencoded"
    /\ UNCHANGED <<mode, recKind, recIn, recFloats, recBack>>
    /\ UNCHANGED <<msbVars, rsdVars, dnfVars, emitVars, parVars, convVars>>

(***************************************************************************)
(* The specifications                                                      *)
(***************************************************************************)
Init == mode = "msb" /\ InitMsbVars /\ IdleRsdVars /\ IdleDnfVars /\ IdleEmitVars /\ IdleParVars /\ IdleRecVars /\ IdleConvVars
Next == WritePhysicalRecord \/ WriteMsbReturn \/ ReadBack \/ ReadPhysicalRecord
Spec == Init /\ [][Next]_vars

InitRsd == mode = "rsd" /\ IdleMsbVars /\ InitRsdVars /\ IdleDnfVars /\ IdleEmitVars /\ IdleParVars /\ IdleRecVars /\ IdleConvVars
NextRsd == RsdFromFloats
SpecRsd == InitRsd /\ [][NextRsd]_vars

InitDnf == mode = "dnf" /\ IdleMsbVars /\ IdleRsdVars /\ InitDnfVars /\ IdleEmitVars /\ IdleParVars /\ IdleRecVars /\ IdleConvVars
NextDnf == AddGroup \/ AddConstraint \/ AddValue \/ DnfEncode \/ DnfDecode
SpecDnf == InitDnf /\ [][NextDnf]_vars

InitEmit == mode = "emit" /\ IdleMsbVars /\ IdleRsdVars /\ IdleDnfVars /\ InitEmitVars /\ IdleParVars /\ IdleRecVars /\ IdleConvVars
NextEmit == Emit
SpecEmit == InitEmit /\ [][NextEmit]_vars

InitPar == mode = "par" /\ IdleMsbVars /\ IdleRsdVars /\ IdleDnfVars /\ IdleEmitVars /\ InitParVars /\ IdleRecVars /\ InitConvVars
NextPar == ParseCommand \/ ParseReturn \/ LoadJson \/ ToJson \/ FromJson \/ EmitPar \/ ParseEmitted
SpecPar == InitPar /\ [][NextPar]_vars

InitRec == mode = "rec" /\ IdleMsbVars /\ IdleRsdVars /\ IdleDnfVars /\ IdleEmitVars /\ IdleParVars
              /\ InitRecVars /\ IdleConvVars
NextRec == RecToFloats \/ RecFromFloats \/ RecToFloatsAgain
SpecRec == InitRec /\ [][NextRec]_vars

(***************************************************************************)
(* The claims                                                              *)
(***************************************************************************)
\* read_msb has stopped: by exhaustion or by an exception
ReadEnded == rdStatus \notin {"idle", "reading"}

\* the float values a logical record holds
ValuesOf(r) == {r[n] : n \in DOMAIN r}
LRecValues(l) ==
    ValuesOf(l.plot) \cup UNION {ValuesOf(l.trees[i]) : i \in DOMAIN l.trees}
                     \cup {l.buf[i] : i \in DOMAIN l.buf}
PhysValues(q) ==
    UNION {UNION {LRecValues(q[i].records[j]) : j \in DOMAIN q[i].records} : i \in DOMAIN q}

\* C1: read_msb ends as a clean end of stream only when no byte at all is
\* left where the next record's leading length field is read; every other
\* short read ends in an error.
C1_EofOnlyWhenNoBytesLeft == rdStatus = "eof" => Avail(fp, rdPos) = 0

\* the blocks of a file hold only logical records of a type other than 1,
\* each with an integral type and its true size
OnlyOpaque(raws) ==
    \A i \in DOMAIN raws :
        /\ raws[i].length = raws[i].length2
        /\ \A j \in DOMAIN raws[i].lrecs :
              /\ raws[i].lrecs[j].typ \in 2..9
              /\ raws[i].lrecs[j].sz = Len(raws[i].lrecs[j].payload)

\* the records read_msb must yield for such a file
OpaqueRecords(raws) ==
    [i \in DOMAIN raws |->
        [uid |-> raws[i].uid,
         records |-> [j \in DOMAIN raws[i].lrecs |->
                         LRec(raws[i].lrecs[j].typ, NoAttrs, <<>>, raws[i].lrecs[j].payload)]]]

\* C2: a logical record of a type other than 1 decodes to a record that holds
\* its type and its payload floats unchanged, and to_floats gives the floats
\* back.
C2_OpaqueRecordsDecode ==
    (ReadEnded /\ fpSrc # NoSrc /\ fpSrc.cut = Len(FileWords(fpSrc.recs)) * WordSize
               /\ OnlyOpaque(fpSrc.recs)) =>
        /\ rdStatus = "eof"
        /\ rdRecords = OpaqueRecords(fpSrc.recs)
        /\ \A i \in DOMAIN rdRecords : \A j \in DOMAIN rdRecords[i].records :
              LogicalRecord_to_floats(rdRecords[i].records[j]).out
                  = fpSrc.recs[i].lrecs[j].payload

\* every value of the records is finite and a float32, so that the format
\* "f" of the default MsbFormat stores it exactly
ExactValues(q) == \A v \in PhysValues(q) : IsFinite(v) /\ Pack32(v) = v

\* C3: write_msb of physical records made of valid logical records, then
\* read_msb of the bytes, gives the same physical records: as many, in the
\* same order, with the same uid and the same logical records.
C3_WriteThenReadIsIdentity ==
    (fpSrc = NoSrc /\ ReadEnded /\ ExactValues(wrQueue)) =>
        (wrStatus = "done" /\ rdStatus = "eof" /\ rdRecords = wrQueue)

\* C4: a non-finite float is rejected when written and when read, in the
\* header floats and in the payload: no record read_msb yields holds one, and
\* no write of a record that holds one succeeds.
C4_NonFiniteRejected ==
    /\ \A v \in PhysValues(rdRecords) : IsFinite(v)
    /\ \A i \in 1..wrDone : \A v \in PhysValues(<<wrQueue[i]>>) : IsFinite(v)

\* the names of the first n fields of a schema
FirstNames(schema, n) == {schema[i].name : i \in 1..n}

\* C5: from_floats reads exactly plotFieldCount plot fields and exactly
\* treeFieldCount fields per tree, over the schema prefix of that length; the
\* fields beyond the count stay absent; a count above the schema's length or
\* below zero is rejected.
C5_FieldCountsHonoured ==
    rsdOut # RsdPending =>
        /\ (\/ rsdIn.nv < 0 \/ rsdIn.nv > Len(RsdSamplePlot_fields)
            \/ rsdIn.ntv < 0 \/ rsdIn.ntv > Len(RsdTree_fields)) => rsdOut.err # ""
        /\ rsdOut.err = "" =>
              /\ rsdOut.nplot = rsdIn.nv
              /\ DOMAIN rsdOut.plot \subseteq FirstNames(RsdSamplePlot_fields, rsdIn.nv)
              /\ Len(rsdOut.trees) = rsdIn.nt
              /\ rsdIn.nt > 0 => rsdOut.ntree = rsdIn.ntv
              /\ \A t \in DOMAIN rsdOut.trees :
                    DOMAIN rsdOut.trees[t] \subseteq FirstNames(RsdTree_fields, rsdIn.ntv)

\* C6 as stated: from_floats(C.to_floats()) has the groups of C, for any C
C6_RoundTripOfAnyCondition ==
    dnfPc = "decoded" => (dnfBack.err = "" /\ dnfBack.groups = cond)

\* every group holds a constraint
NoEmptyGroup(c) == \A g \in DOMAIN c : c[g] # <<>>

\* the sign tells a range from a literal: the high of every range is above
\* zero, and no term that follows a literal starts with a float below zero
SignsTellRanges(c) ==
    \A g \in DOMAIN c : \A k \in DOMAIN c[g] : \A i \in DOMAIN c[g][k].values :
        /\ c[g][k].values[i].range => FLt(0, c[g][k].values[i].b)
        /\ (i > 1 /\ ~c[g][k].values[i - 1].range) => ~FLt(c[g][k].values[i].a, 0)

\* C6: from_floats(C.to_floats()) has the groups of C, in order, with the same
\* constraints, variables and values, for every C without an empty group whose
\* ranges and literals the sign tells apart; the empty condition encodes to
\* [0] and decodes to no group.
C6_RoundTrip ==
    /\ (dnfPc = "decoded" /\ NoEmptyGroup(cond) /\ SignsTellRanges(cond)) =>
           (dnfBack.err = "" /\ dnfBack.groups = cond)
    /\ (dnfPc = "decoded" /\ cond = <<>>) => (dnfFloats = <<0>> /\ dnfBack.groups = <<>>)

C6_Witness ==
    /\ dnfPc = "decoded" /\ cond = CondV42
    /\ dnfFloats = <<4, 42, 3, 5, -10>>
    /\ dnfBack.groups = CondV42

\* where the floats of group g start in the floats of a condition: after
\* the groups before it and one separator for each
RECURSIVE GroupStart(_, _)
GroupStart(c, g) ==
    IF g = 1 THEN 1 ELSE GroupStart(c, g - 1) + Len(GroupFloats(c[g - 1])) + 1

\* C7: to_floats gives the constraints of each group in order, one 0 between
\* two consecutive groups and none after the last; the empty condition is
\* [0]; [[V1 = 7]] or [[V2 = 8]] is [2,1,7,0,2,2,8], which from_floats reads
\* back as two groups of one constraint each.
C7_OneSeparatorBetweenGroups ==
    /\ (dnfPc # "build" /\ cond = <<>>) => dnfFloats = <<0>>
    /\ (dnfPc # "build" /\ cond # <<>>) =>
          /\ Len(dnfFloats) = GroupStart(cond, Len(cond)) + Len(GroupFloats(cond[Len(cond)])) - 1
          /\ \A g \in DOMAIN cond :
                /\ SubSeq(dnfFloats, GroupStart(cond, g),
                          GroupStart(cond, g) + Len(GroupFloats(cond[g])) - 1)
                       = GroupFloats(cond[g])
                /\ g > 1 => dnfFloats[GroupStart(cond, g) - 1] = 0
    /\ (dnfPc # "build" /\ cond = CondTwoGroups) => dnfFloats = <<2, 1, 7, 0, 2, 2, 8>>
    /\ (dnfPc = "decoded" /\ cond = CondTwoGroups) =>
          (dnfBack.err = "" /\ dnfBack.groups = CondTwoGroups)

C7_Witness ==
    /\ dnfPc = "decoded" /\ cond = CondTwoGroups
    /\ dnfFloats = <<2, 1, 7, 0, 2, 2, 8>>
    /\ Len(dnfBack.groups) = 2

\* the lines emit appended
EmittedLines == LinesOf(buf, "")

\* C8: every line emit appends, its marker, tokens and spaces counted, is at
\* most line_wrap characters long whenever emit returns without error; with
\* line_wrap 10 the command AB 123456 7 gives "AB 123456" and "    7".
C8_LinesWithinBudget ==
    /\ emitStatus = "done" =>
          \A i \in DOMAIN EmittedLines : Len(EmittedLines[i]) <= stmt.line_wrap
    /\ (emitStatus = "done" /\ stmt.kind = "command" /\ stmt.line_wrap = 10
                            /\ stmt.params = <<"AB", "123456", "7">>) =>
          EmittedLines = <<"AB 123456", "    7">>

\* token i cannot fit a line of the statement, whichever marker the line has
\* (the first-line marker is the shortest marker of every kind)
Oversized(i) == Len(FirstMarker(stmt.kind)) + Len(stmt.params[i]) > stmt.line_wrap

\* C9: emit raises ParError for every statement with a token that alone
\* exceeds the budget, whatever its position, and never emits the token.
C9_OversizedTokenRaises ==
    (emitStatus \in {"done", "ParError"} /\ \E i \in DOMAIN stmt.params : Oversized(i)) =>
        emitStatus = "ParError"

\* the commands parse_par finds a handler for
Known(cs) == SelectSeq(cs, HasHandler)

\* the diagnostics of skipped commands
SkipWarnings(ws) == SelectSeq(ws, LAMBDA w : w.w = "command")

\* parse_par has returned or raised
ParseEnded == doc = NoDoc /\ parStatus \notin {"idle", "parsing"}

\* C10: a command without a handler is skipped with a diagnostic: the turn
\* of the loop leaves the Par model and the link table as they are and goes
\* on to the next command, and parse_par ends as it does on the sequence
\* without such commands.
C10_UnknownCommandSkipped ==
    /\ [](ParseEnded =>
            /\ par = parse_par(Known(cmds)).par
            /\ links = parse_par(Known(cmds)).links
            /\ parStatus = parse_par(Known(cmds)).status
            /\ parStatus = "linked" => cmdIdx = Len(cmds))
    /\ [][(cmdIdx' = cmdIdx + 1 /\ ~HasHandler(cmds[cmdIdx + 1])) =>
            /\ par' = par /\ links' = links /\ parStatus' = parStatus
            /\ warnings' = Append(warnings, [w |-> "command", name |-> cmds[cmdIdx + 1].name])]_vars

C10_Witness ==
    /\ parStatus = "linked"
    /\ cmds = <<CmdForeign, CmdEvent1, CmdNoHandler>>
    /\ DOMAIN par.events = {1}
    /\ Len(SkipWarnings(warnings)) = 2

\* an attribute parse_event_param cannot read as a name and a numeric list
Unreadable(a) == ~SymHas(a.name) \/ ~a.numeric

\* an attribute the symbol table knows that is none of the eight of an event
Foreign(a) == ~Unreadable(a) /\ Sym(a.name) \notin EventParamNames

IsEventCmd(cmd) == HasHandler(cmd) /\ Sym(cmd.name) \in {"TAPAHTUMA", "TAPAHTUMA_OLETUSARVOT"}

Readable(a) == ~Unreadable(a)
WithoutUnreadable(cmd) == [cmd EXCEPT !.attrs = SelectSeq(@, Readable)]

\* the warnings of the unreadable attributes up to the one that raises, if any
RECURSIVE ArgumentWarnings(_, _)
ArgumentWarnings(attrs, n) ==
    IF n = 0 THEN <<>>
    ELSE ArgumentWarnings(attrs, n - 1) \o
         (IF Unreadable(attrs[n]) THEN <<[w |-> "argument", name |-> attrs[n].name]>> ELSE <<>>)

\* C11: in one event command, an attribute that does not read as a name and a
\* numeric list is skipped with a warning: the command ends as it does without
\* these attributes (the attributes before and after are applied, the event is
\* added), with one warning for each; an attribute the symbol table knows that
\* is none of the eight raises ParError and the event is not added.
C11_SkipVersusFatal ==
    [][(parStatus = "parsing" /\ cmdIdx' = cmdIdx + 1 /\ IsEventCmd(cmds[cmdIdx + 1])) =>
         LET cmd == cmds[cmdIdx + 1]
             Same(r) == /\ par' = r.par /\ links' = r.links /\ parStatus' = r.status
                        /\ r.warnings = warnings
             Ended(ps) ==
                /\ (\E i \in DOMAIN cmd.attrs : Foreign(cmd.attrs[i])) =>
                       (parStatus' = "ParError" /\ par' = par)
                /\ parStatus' = "parsing" =>
                       /\ \A i \in DOMAIN cmd.attrs : ~Foreign(cmd.attrs[i])
                       /\ DOMAIN par'.events = DOMAIN par.events \cup
                             {IF Sym(cmd.name) = "TAPAHTUMA" THEN cmd.ident.id ELSE DefaultId}
                       /\ warnings' = warnings \o ArgumentWarnings(cmd.attrs, Len(cmd.attrs))
         IN  Same(cmd_event(CurParser, WithoutUnreadable(cmd))) /\ Ended(CurParser)
      ]_vars

C11_Witness ==
    /\ cmds = <<CmdEvent2, CmdEvent3>> /\ cmdIdx = 2
    /\ parStatus = "ParError"
    /\ DOMAIN par.events = {2}
    /\ Len(par.events[2].calls) = 1
    /\ links.precedessors[2] = <<1>>
    /\ warnings = <<[w |-> "argument", name |-> "TODENNAKOISYYS"]>>

\* write_msb ended with an exception
WriteFailed == wrStatus \notin {"idle", "writing", "done"}

\* C15: a conversion writes its complete output or nothing: when write_msb
\* fails on some physical record, no byte of that record or of the records
\* before it has been written to the output.
C15_NothingWrittenOnFailure == WriteFailed => fp.words = <<>>

\* the words of the header of a block: length, uid (two words), total value count
HeaderWords == 1 + Len(UidWords(0)) + 1

\* the blocks of words from word position p on: in each, the total value
\* count is the number of float words between the header and the trailing length
RECURSIVE BlocksCounted(_, _)
BlocksCounted(words, p) ==
    IF p >= Len(words) THEN TRUE
    ELSE /\ p + HeaderWords + 1 <= Len(words)
         /\ LET Counted(nv) ==
                  /\ p + HeaderWords + nv + 1 <= Len(words)
                  /\ words[p + HeaderWords + nv + 1] = words[p + 1]
                  /\ BlocksCounted(words, p + HeaderWords + nv + 1)
            IN  Counted(AsInt(words[p + HeaderWords]))

\* C16: the total value count write_physical_record writes is the sum of
\* (valueCount + 2) over the logical records, and in every physical record
\* the reader accepts the logical records it consumed hold exactly
\* totalValueCount floats (valueCount + 2 for each): a record whose logical
\* records overshoot or fall short of the count is not accepted.
C16_TotalValueCountIsTheSum ==
    /\ []((fpSrc = NoSrc /\ wrStatus = "done") => BlocksCounted(fp.words, 0))
    /\ [][(rdStatus = "reading" /\ Len(rdRecords') = Len(rdRecords) + 1) =>
             rdPos' - rdPos = HeaderWords + AsInt(fp.words[rdPos + HeaderWords]) + 1]_vars

\* the floats the terms of a constraint take: one for a literal, two for a range
RECURSIVE TermCount(_)
TermCount(values) ==
    IF values = <<>> THEN 0
    ELSE (IF Head(values).range THEN 2 ELSE 1) + TermCount(Tail(values))

\* where the block of constraint k of group g starts in the floats of c, each
\* block before it taking w floats more than its terms
RECURSIVE BlockStart(_, _, _, _)
BlockStart(c, g, k, w) ==
    IF k > 1 THEN BlockStart(c, g, k - 1, w) + w + TermCount(c[g][k - 1].values)
    ELSE IF g > 1 THEN BlockStart(c, g - 1, Len(c[g - 1]) + 1, w) + 1
    ELSE 1

\* the floats of the terms, as the claim lists them
RECURSIVE TermsAsFloats(_)
TermsAsFloats(values) ==
    IF values = <<>> THEN <<>>
    ELSE (IF Head(values).range THEN <<Head(values).a, -Head(values).b>> ELSE <<Head(values).a>>)
         \o TermsAsFloats(Tail(values))

\* every block of the floats of cond is [n, varId, terms...] with n = count
\* more than the floats of its terms
BlocksHaveCount(count) ==
    \A g \in DOMAIN cond : \A k \in DOMAIN cond[g] :
        LET At(s, terms) ==
              /\ s + 1 + Len(terms) <= Len(dnfFloats)
              /\ dnfFloats[s] = Len(terms) + count
              /\ dnfFloats[s + 1] = cond[g][k].var
              /\ SubSeq(dnfFloats, s + 2, s + 1 + Len(terms)) = terms
        IN  At(BlockStart(cond, g, k, 2), TermsAsFloats(cond[g][k].values))

\* from_floats cut the floats into the blocks to_floats wrote: the groups
\* that hold a constraint, each with its constraints' variables and as many
\* term floats as were written
SameBlocksRead ==
    (dnfPc = "decoded" /\ NoEmptyGroup(cond)) =>
        /\ dnfBack.err = ""
        /\ Len(dnfBack.groups) = Len(cond)
        /\ \A g \in DOMAIN cond :
             /\ Len(dnfBack.groups[g]) = Len(cond[g])
             /\ \A k \in DOMAIN cond[g] :
                  /\ dnfBack.groups[g][k].var = cond[g][k].var
                  /\ TermCount(dnfBack.groups[g][k].values) = TermCount(cond[g][k].values)

\* C17 as stated: n is the total float count of the constraint, the count
\* itself and the var id included
C17_CountIncludesItself ==
    dnfPc \in {"encoded", "decoded"} => (BlocksHaveCount(2) /\ SameBlocksRead)

\* C17: Constraint.to_floats emits each constraint as [n, varId, terms...]
\* where n counts the floats that follow it, the var id and the terms (a
\* literal one float, a range (low, high) the two floats low, -high), and
\* from_floats reads each constraint's block with the same meaning of n.
C17_CountOfFloatsThatFollow ==
    dnfPc \in {"encoded", "decoded"} => (BlocksHaveCount(1) /\ SameBlocksRead)

C17_Witness ==
    /\ dnfPc = "decoded"
    /\ cond = << <<Con(1, <<Lit(7)>>), Con(2, <<Rng(5, 10)>>)>> >>
    /\ dnfFloats = <<2, 1, 7, 3, 2, 5, -10>>
    /\ dnfBack.groups = cond

\* C18: for every Control record and every Output record with all of its
\* non-constant fields set, to_floats, from_floats and to_floats again give
\* the float sequence of the first to_floats (17 floats for Control, 10 for
\* Output), every Constant slot holding its fixed value (0, 1000 or 1) in both.
C18_ReencodingIsIdentical ==
    LET Slots(out) ==
          IF recKind = "Control"
          THEN /\ Len(out) = 17
               /\ \A i \in {3, 4, 6, 9, 10, 13, 14} : out[i] = 0
               /\ out[5] = 1000 /\ out[7] = 1
          ELSE /\ Len(out) = 10
               /\ \A i \in {6, 7, 8, 10} : out[i] = 0
    IN  /\ recPc = "encoded" => (recFloats.err = "" /\ Slots(recFloats.out))
        /\ recPc = "decoded" => recBack.err = ""
        /\ recPc = "reencoded" =>
               (recAgain.err = "" /\ recAgain.out = recFloats.out /\ Slots(recAgain.out))

C18_Witness ==
    /\ recPc = "reencoded" /\ recKind = "Output"
    /\ recIn["msc"] = 2 /\ recIn["terminal_summary"] = -Half
    /\ recFloats.out[1] = 1 /\ recFloats.out[3] = -Half
    /\ recAgain.out = recFloats.out

\* the ids of one link table (VASTAAVAT_TAPAHTUMAT or SALLITUT_EDELTAJAT) as
\* the references of the model: in the order given, the Event of par.events
\* where an event has the id and an EventRef with only the id where none has
Resolved(pr, table, attr, id) ==
    IF id \in DOMAIN table
    THEN /\ attr \in DOMAIN pr.events[id].a
         /\ pr.events[id].a[attr] =
                [i \in DOMAIN table[id] |->
                    [id |-> table[id][i], resolved |-> table[id][i] \in DOMAIN pr.events]]
    ELSE attr \notin DOMAIN pr.events[id].a

\* every event of the model holds the references of both tables
AllResolved(pr, lk) ==
    \A id \in DOMAIN pr.events :
        /\ Resolved(pr, lk.comparable, "comparable_events", id)
        /\ Resolved(pr, lk.precedessors, "feasible_precedessors", id)

\* no event of the model holds a reference
NoneResolved(pr) == \A id \in DOMAIN pr.events : DOMAIN pr.events[id].a \cap RefAttrs = {}

\* table t2 holds the ids of table t1 and after them those that were added
Accumulated(t1, t2) ==
    \A id \in DOMAIN t1 : id \in DOMAIN t2 /\ SubSeq(t2[id], 1, Len(t1[id])) = t1[id]

\* C12: while commands are consumed no reference is resolved and the ids pile
\* up in the link table; link_events runs in the one step after the last
\* command, never raises on a dangling id, and in the model that parse_par
\* or Par.from_json returns every reference list holds the ids in the order
\* given, each the Event under that id (also one defined later) or an
\* EventRef with only the id.
C12_ResolvedOnceAtTheEnd ==
    /\ [](parStatus = "parsing" => NoneResolved(par))
    /\ [](parStatus = "linked" => AllResolved(par, links))
    /\ [](convPc = "back" => (back.err = "" /\ AllResolved(back.par, back.links)))
    /\ [](convPc = "reparsed" =>
             (reparsed.status = "linked" => AllResolved(reparsed.par, reparsed.links)))
    /\ [][parStatus = "parsing" =>
            /\ Accumulated(links.comparable, links'.comparable)
            /\ Accumulated(links.precedessors, links'.precedessors)
            /\ cmdIdx < Len(cmds) => (parStatus' # "linked" /\ NoneResolved(par'))
            /\ cmdIdx = Len(cmds) => (parStatus' = "linked" /\ links' = links)]_vars

C12_Witness ==
    /\ cmds = <<CmdEvent1, CmdEvent2>> /\ convPc = "back"
    /\ par.events[1].a["comparable_events"] =
           <<[id |-> 2, resolved |-> TRUE], [id |-> 9, resolved |-> FALSE]>>
    /\ par.events[2].a["feasible_precedessors"] = <<[id |-> 1, resolved |-> TRUE]>>
    /\ back.par.events[1].a["comparable_events"] = par.events[1].a["comparable_events"]
    /\ links.comparable[1] = <<2, 9>>

\* the attributes of an event that to_json, from_json, emit and the parser
\* carry as they are
PlainAttrs == {"years", "repeat_interval", "branching", "probability", "condition",
               "min_intervals"}

\* attribute k of both events is None, or is set to the same value in both
SameAttr(e1, e2, k) ==
    /\ k \in DOMAIN e1.a <=> k \in DOMAIN e2.a
    /\ k \in DOMAIN e1.a => e1.a[k] = e2.a[k]

\* C13: Par.from_json(model.to_json()) has the same event ids and for each
\* event the same name, years, repeat_interval, branching, probability,
\* condition, min_intervals, calls and references (the same ids, each
\* resolved or dangling as in the original), and the same includes, years,
\* output and control.
C13_JsonRoundTrip ==
    convPc = "back" =>
        /\ back.err = ""
        /\ DOMAIN back.par.events = DOMAIN par.events
        /\ \A id \in DOMAIN par.events :
              /\ back.par.events[id].name = par.events[id].name
              /\ back.par.events[id].calls = par.events[id].calls
              /\ \A k \in PlainAttrs \cup RefAttrs :
                    SameAttr(par.events[id], back.par.events[id], k)
        /\ back.par.includes = par.includes /\ back.par.years = par.years
        /\ back.par.output = par.output /\ back.par.control = par.control

\* C14: parse_par over the statements Par.emit wrote gives each event back
\* with the same years and repeat_interval (also when only one of the two is
\* set), branching, probability, condition, min_intervals, reference ids and
\* routine calls.
C14_EmitParseRoundTrip ==
    convPc = "reparsed" =>
        /\ reparsed.status = "linked"
        /\ DOMAIN reparsed.par.events = DOMAIN par.events
        /\ \A id \in DOMAIN par.events :
              /\ reparsed.par.events[id].calls = par.events[id].calls
              /\ \A k \in PlainAttrs : SameAttr(par.events[id], reparsed.par.events[id], k)
              /\ \A k \in RefAttrs :
                    /\ k \in DOMAIN par.events[id].a <=> k \in DOMAIN reparsed.par.events[id].a
                    /\ k \in DOMAIN par.events[id].a =>
                          RefIds(reparsed.par.events[id].a[k]) = RefIds(par.events[id].a[k])

====
